---- MODULE Spec2Model ----
(***************************************************************************)
(* Model of scripts/test_runner.py: the job directive parser               *)
(* (JobConfig.from_string, JobConfig._normalize_config_string,             *)
(* JobConfigParser.parse_job_config), the log pattern matcher              *)
(* (LogPatternMatcher), the success predicate (TestResult.success) and the *)
(* single test runner (SingleTestRunner.run_test); of the test manager of  *)
(* scripts/gd_tester.py with the copying of scripts/test_copy_utils.py;    *)
(* and of build_modules of scripts/gd_builder.py.                          *)
(*                                                                         *)
(* Representation of Python values:                                        *)
(*  - a str is a sequence of one-character strings;                        *)
(*  - a multi-line text (stdout, stderr, the combined log) is the sequence *)
(*    of its lines, i.e. text.split('\n'); the empty text is << <<>> >>,   *)
(*    and "\n".join(lines) is the same sequence again;                     *)
(*  - a JSON value is a record [t, b, n, s, keys, items] tagged by t; a    *)
(*    log pattern is such a value, a str unless from_string left another   *)
(*    type in log_patterns;                                                *)
(*  - the outcome of a call is a record tagged by kind: the object it      *)
(*    returned ("JobConfig", "LogMatchResult", "TestResult") or "raised"   *)
(*    with the class of the exception that left it.                        *)
(*                                                                         *)
(* Eight specifications share the variables; each keeps the variables it   *)
(* does not use at their idle values:                                      *)
(*  - SpecParse: _normalize_config_string, from_string and                 *)
(*    parse_job_config applied to a directive;                             *)
(*  - SpecMatch: match_patterns applied to patterns and outputs;           *)
(*  - Spec: one invocation of run_test;                                    *)
(*  - SpecBatch (FairSpecBatch with weak fairness): one invocation of      *)
(*    TestRunner.run_all_tests, calling run_test for every job file;       *)
(*  - SpecEnv: TestEnvironment.setup_environment called once per job, and  *)
(*    the holders of the returned maps changing them;                      *)
(*  - SpecYaml: parse_yaml_modules applied to a job file;                  *)
(*  - SpecTester: one run of TestManager.run (clean, copy, run tests);     *)
(*  - SpecBuilder: one invocation of build_modules.                        *)
(***************************************************************************)
EXTENDS Integers, Sequences, FiniteSets, TLC

VARIABLES
    \* ---- directive parsing (JobConfig / JobConfigParser)
    written,         \* how the directive was written: its style and fields
    config_str,      \* the directive text handed to from_string
    job_file,        \* the job file handed to parse_job_config
    parse_pc,        \* position of the parsing harness
    normalized,      \* result of _normalize_config_string(config_str)
    from_result,     \* outcome of JobConfig.from_string(config_str)
    job_config,      \* outcome of JobConfigParser.parse_job_config(job file)
    \* ---- log pattern matching (LogPatternMatcher)
    patterns,        \* argument of match_patterns
    stdout,          \* argument of match_patterns (lines)
    stderr,          \* argument of match_patterns (lines)
    match_pc,        \* position of the matching harness
    match_result,    \* LogMatchResult returned by match_patterns, with its properties
    \* ---- one invocation of SingleTestRunner.run_test
    run_job,            \* the job file handed to run_test
    env_script_exists,  \* whether {geodelity_dir}/etc/env.sh exists
    grun_script_exists, \* whether {geodelity_dir}/bin/grun.sh exists
    run_pc,             \* position in run_test
    config,             \* the parsed JobConfig
    proc,               \* what subprocess.run did
    run_result,         \* the TestResult returned, or the exception that left run_test
    \* ---- one invocation of TestRunner.run_all_tests
    tests_dir,       \* the names of the files of the tests directory
    job_files,       \* the list find_job_files returned
    batch_index,     \* position of the loop in job_files
    invoked,         \* the job files run_test was called with, in call order
    results,         \* the list of results
    batch_pc,        \* position in run_all_tests
    \* ---- TestEnvironment.setup_environment and the maps it returned
    test_env,        \* the TestEnvironment: geodelity_dir, debug, keep_job_files
    heap,            \* the dict objects: heap[1] is os.environ
    job_envs,        \* the references setup_environment returned, one per job
    env_pc,          \* position of the environment harness
    \* ---- JobConfigParser.parse_yaml_modules
    yaml_file,       \* the job file: what open() and yaml.safe_load() do with it
    yaml_result,     \* the list parse_yaml_modules returned, or the exception
    yaml_pc,         \* position of the module-list harness
    \* ---- TestManager.run (gd_tester.py)
    args,            \* the parsed command line: modules, clean, dry_run, geo_valid
    tree,            \* the module directory tree the tests are copied from
    tests,           \* the tests directory: whether it exists, and its files
    grun,            \* the grun directory: whether it exists, and its files
    module_specs,    \* what _get_module_specs returned
    copy_results,    \* the results dict of copy_module_tests
    steps,           \* the file operations and test runs done so far, in order
    tester_pc,       \* position in TestManager.run
    \* ---- build_modules (gd_builder.py)
    module_dirs,     \* the module directories, by name
    module_versions, \* what get_module_versions returned
    build_queue,     \* the modules the loop of build_modules has still to do
    commands,        \* the commands handed to subprocess.run, in order
    build_results,   \* build_results, by module name
    build_pc         \* position in build_modules

parseVars == <<written, config_str, job_file, parse_pc, normalized, from_result, job_config>>
matchVars == <<patterns, stdout, stderr, match_pc, match_result>>
runVars == <<run_job, env_script_exists, grun_script_exists, run_pc, config, proc, run_result>>
batchVars == <<tests_dir, job_files, batch_index, invoked, results, batch_pc>>
envVars == <<test_env, heap, job_envs, env_pc>>
yamlVars == <<yaml_file, yaml_result, yaml_pc>>
testerVars == <<args, tree, tests, grun, module_specs, copy_results, steps, tester_pc>>
builderVars ==
    <<module_dirs, module_versions, build_queue, commands, build_results, build_pc>>
vars == <<parseVars, matchVars, runVars, batchVars, envVars, yamlVars, testerVars,
          builderVars>>

None == [kind |-> "none"]

Range(s) == {s[i] : i \in DOMAIN s}

(***************************************************************************)
(* Python str operations on character sequences.                           *)
(***************************************************************************)

\* str.startswith(p, i-1): p occurs in s at (1-based) position i
StartsWithAt(s, p, i) ==
    /\ i >= 1
    /\ i + Len(p) - 1 <= Len(s)
    /\ \A k \in 1..Len(p) : s[i + k - 1] = p[k]

StartsWith(s, p) == StartsWithAt(s, p, 1)

\* p in s
Contains(s, p) == \E i \in 1..(Len(s) - Len(p) + 1) : StartsWithAt(s, p, i)

IsSpace(c) == c \in {" ", "\t"}

RECURSIVE LStrip(_)
LStrip(s) == IF s # <<>> /\ IsSpace(Head(s)) THEN LStrip(Tail(s)) ELSE s

RECURSIVE RStrip(_)
RStrip(s) ==
    IF s # <<>> /\ IsSpace(s[Len(s)]) THEN RStrip(SubSeq(s, 1, Len(s) - 1)) ELSE s

\* str.strip()
Strip(s) == RStrip(LStrip(s))

(***************************************************************************)
(* Characters                                                              *)
(***************************************************************************)

DigitChars == <<"0", "1", "2", "3", "4", "5", "6", "7", "8", "9">>

UpperChars ==
    <<"A", "B", "C", "D", "E", "F", "G", "H", "I", "J", "K", "L", "M",
      "N", "O", "P", "Q", "R", "S", "T", "U", "V", "W", "X", "Y", "Z">>

LowerChars ==
    <<"a", "b", "c", "d", "e", "f", "g", "h", "i", "j", "k", "l", "m",
      "n", "o", "p", "q", "r", "s", "t", "u", "v", "w", "x", "y", "z">>

IndexOf(seq, c) == CHOOSE i \in DOMAIN seq : seq[i] = c

IsDigit(c) == c \in Range(DigitChars)

DigitValue(c) == IndexOf(DigitChars, c) - 1

\* \w of the re module, over ASCII
IsWordChar(c) == c \in Range(DigitChars) \cup Range(UpperChars) \cup Range(LowerChars) \cup {"_"}

\* str.lower()
Lower(s) ==
    [i \in 1..Len(s) |->
        IF s[i] \in Range(UpperChars) THEN LowerChars[IndexOf(UpperChars, s[i])] ELSE s[i]]

\* the decimal digits of a natural number: str(n)
RECURSIVE Decimal(_)
Decimal(n) ==
    IF n < 10 THEN <<DigitChars[n + 1]>>
    ELSE Append(Decimal(n \div 10), DigitChars[(n % 10) + 1])

\* the value of a non-empty sequence of digits
RECURSIVE DigitsValue(_)
DigitsValue(ds) ==
    IF Len(ds) = 1 THEN DigitValue(ds[1])
    ELSE 10 * DigitsValue(SubSeq(ds, 1, Len(ds) - 1)) + DigitValue(ds[Len(ds)])

RECURSIVE Concat(_)
Concat(seqs) == IF seqs = <<>> THEN <<>> ELSE Head(seqs) \o Concat(Tail(seqs))

(***************************************************************************)
(* JSON values and json.loads                                              *)
(*                                                                         *)
(* A parsed value is a record tagged by t: "null", "bool" (b), "int" (n),  *)
(* "str" (s), "list" (items), "dict" (keys and items, in insertion order). *)
(* Floats, NaN/Infinity and \uXXXX escapes are outside the alphabet of the *)
(* directives of this model.                                               *)
(***************************************************************************)

JValue(t, b, n, s, keys, items) ==
    [t |-> t, b |-> b, n |-> n, s |-> s, keys |-> keys, items |-> items]

JNull             == JValue("null", FALSE, 0, <<>>, <<>>, <<>>)
JBool(b)          == JValue("bool", b, 0, <<>>, <<>>, <<>>)
JInt(n)           == JValue("int", FALSE, n, <<>>, <<>>, <<>>)
JStr(s)           == JValue("str", FALSE, 0, s, <<>>, <<>>)
JList(items)      == JValue("list", FALSE, 0, <<>>, <<>>, items)
JDict(keys, items) == JValue("dict", FALSE, 0, <<>>, keys, items)

\* d[k] = v on the pairs of a dict under construction
DictPut(d, k, v) ==
    IF k \in Range(d.keys)
    THEN JDict(d.keys, [d.items EXCEPT ![IndexOf(d.keys, k)] = v])
    ELSE JDict(Append(d.keys, k), Append(d.items, v))

\* k in d, d[k]
DictHas(d, k) == k \in Range(d.keys)
DictGet(d, k) == d.items[IndexOf(d.keys, k)]

\* a scan fails (JSONDecodeError) or yields a value and the position after it
ScanFail == [ok |-> FALSE, val |-> JNull, pos |-> 0]
ScanOk(v, pos) == [ok |-> TRUE, val |-> v, pos |-> pos]

IsJsonSpace(c) == c \in {" ", "\t", "\n", "\r"}

RECURSIVE SkipWs(_, _)
SkipWs(s, i) == IF i <= Len(s) /\ IsJsonSpace(s[i]) THEN SkipWs(s, i + 1) ELSE i

\* the character an escape \c stands for ("\\b" denotes U+0008)
Unescape(c) ==
    CASE c = "n" -> "\n"
      [] c = "t" -> "\t"
      [] c = "r" -> "\r"
      [] c = "f" -> "\f"
      [] c = "b" -> "\\b"
      [] OTHER -> c

\* scanstring, strict: i is the position after the opening quote
RECURSIVE ScanString(_, _, _)
ScanString(s, i, acc) ==
    IF i > Len(s) THEN ScanFail
    ELSE IF s[i] = "\"" THEN ScanOk(JStr(acc), i + 1)
    ELSE IF s[i] = "\\" THEN
        IF i + 1 <= Len(s) /\ s[i + 1] \in {"\"", "\\", "/", "b", "f", "n", "r", "t"}
        THEN ScanString(s, i + 2, Append(acc, Unescape(s[i + 1])))
        ELSE ScanFail
    ELSE IF s[i] \in {"\t", "\n", "\r", "\f", "\\b"} THEN ScanFail
    ELSE ScanString(s, i + 1, Append(acc, s[i]))

RECURSIVE DigitsEnd(_, _)
DigitsEnd(s, i) == IF i <= Len(s) /\ IsDigit(s[i]) THEN DigitsEnd(s, i + 1) ELSE i

\* NUMBER_RE: -?(0|[1-9]\d*)
ScanNumber(s, i) ==
    LET neg == i <= Len(s) /\ s[i] = "-"
        d == IF neg THEN i + 1 ELSE i
    IN  IF d > Len(s) \/ ~IsDigit(s[d]) THEN ScanFail
        ELSE LET e == IF s[d] = "0" THEN d + 1 ELSE DigitsEnd(s, d)
                 n == DigitsValue(SubSeq(s, d, e - 1))
             IN  ScanOk(JInt(IF neg THEN 0 - n ELSE n), e)

LitNull  == <<"n", "u", "l", "l">>
LitTrue  == <<"t", "r", "u", "e">>
LitFalse == <<"f", "a", "l", "s", "e">>

RECURSIVE ScanOnce(_, _)
RECURSIVE ArrayItems(_, _, _)
RECURSIVE ObjectItems(_, _, _)

\* JSONArray: i is the position after "["
JSONArray(s, i) ==
    LET j == SkipWs(s, i)
    IN  IF j <= Len(s) /\ s[j] = "]" THEN ScanOk(JList(<<>>), j + 1)
        ELSE ArrayItems(s, j, <<>>)

\* the while loop of JSONArray: i is where the next value starts
ArrayItems(s, i, values) ==
    LET v == ScanOnce(s, i)
    IN  IF ~v.ok THEN ScanFail
        ELSE LET j == SkipWs(s, v.pos)
             IN  IF j > Len(s) THEN ScanFail
                 ELSE IF s[j] = "]" THEN ScanOk(JList(Append(values, v.val)), j + 1)
                 ELSE IF s[j] = ","
                 THEN ArrayItems(s, SkipWs(s, j + 1), Append(values, v.val))
                 ELSE ScanFail

\* JSONObject: i is the position after "{"
JSONObject(s, i) ==
    LET j == SkipWs(s, i)
    IN  IF j > Len(s) THEN ScanFail
        ELSE IF s[j] = "}" THEN ScanOk(JDict(<<>>, <<>>), j + 1)
        ELSE IF s[j] # "\"" THEN ScanFail
        ELSE ObjectItems(s, j, JDict(<<>>, <<>>))

\* the while loop of JSONObject: s[i] is the quote that opens the next key
ObjectItems(s, i, pairs) ==
    LET key == ScanString(s, i + 1, <<>>)
    IN  IF ~key.ok THEN ScanFail
        ELSE
        LET colon == SkipWs(s, key.pos)
        IN  IF colon > Len(s) \/ s[colon] # ":" THEN ScanFail
            ELSE
            LET v == ScanOnce(s, SkipWs(s, colon + 1))
            IN  IF ~v.ok THEN ScanFail
                ELSE
                LET e == SkipWs(s, v.pos)
                    more == DictPut(pairs, key.val.s, v.val)
                IN  IF e > Len(s) THEN ScanFail
                    ELSE IF s[e] = "}" THEN ScanOk(more, e + 1)
                    ELSE IF s[e] = "," THEN
                        LET n == SkipWs(s, e + 1)
                        IN  IF n > Len(s) \/ s[n] # "\"" THEN ScanFail
                            ELSE ObjectItems(s, n, more)
                    ELSE ScanFail

\* scan_once
ScanOnce(s, i) ==
    IF i > Len(s) THEN ScanFail
    ELSE IF s[i] = "\"" THEN ScanString(s, i + 1, <<>>)
    ELSE IF s[i] = "{" THEN JSONObject(s, i + 1)
    ELSE IF s[i] = "[" THEN JSONArray(s, i + 1)
    ELSE IF StartsWithAt(s, LitNull, i) THEN ScanOk(JNull, i + 4)
    ELSE IF StartsWithAt(s, LitTrue, i) THEN ScanOk(JBool(TRUE), i + 4)
    ELSE IF StartsWithAt(s, LitFalse, i) THEN ScanOk(JBool(FALSE), i + 5)
    ELSE ScanNumber(s, i)

\* json.loads(s): [ok |-> FALSE] stands for JSONDecodeError
json_loads(s) ==
    LET v == ScanOnce(s, SkipWs(s, 1))
    IN  IF ~v.ok THEN ScanFail
        ELSE IF SkipWs(s, v.pos) # Len(s) + 1 THEN ScanFail
        ELSE v

(***************************************************************************)
(* Python conversions used by JobConfig.from_string                        *)
(***************************************************************************)

\* a conversion returns a value or raises
Raised(exc) == [kind |-> "raised", exc |-> exc]

TextNone  == <<"N", "o", "n", "e">>
TextTrue  == <<"T", "r", "u", "e">>
TextFalse == <<"F", "a", "l", "s", "e">>
TextYes   == <<"y", "e", "s">>
TextNo    == <<"n", "o">>
TextLog     == <<"l", "o", "g">>
TextPass    == <<"p", "a", "s", "s">>
TextTimeout == <<"t", "i", "m", "e", "o", "u", "t">>

\* ", ".join(parts)
RECURSIVE JoinComma(_)
JoinComma(parts) ==
    IF parts = <<>> THEN <<>>
    ELSE IF Len(parts) = 1 THEN parts[1]
    ELSE parts[1] \o <<",", " ">> \o JoinComma(Tail(parts))

SignedDecimal(n) == IF n < 0 THEN <<"-">> \o Decimal(0 - n) ELSE Decimal(n)

\* str(v) and repr(v); the repr of a str is written with single quotes (the
\* strings of this model hold no single quote and no backslash)
RECURSIVE PyStr(_)
RECURSIVE PyRepr(_)
PyStr(v) ==
    CASE v.t = "str"  -> v.s
      [] v.t = "int"  -> SignedDecimal(v.n)
      [] v.t = "bool" -> IF v.b THEN TextTrue ELSE TextFalse
      [] v.t = "null" -> TextNone
      [] v.t = "list" ->
            <<"[">> \o JoinComma([i \in 1..Len(v.items) |-> PyRepr(v.items[i])]) \o <<"]">>
      [] v.t = "dict" ->
            <<"{">> \o JoinComma([i \in 1..Len(v.items) |->
                          <<"'">> \o v.keys[i] \o <<"'", ":", " ">> \o PyRepr(v.items[i])])
                    \o <<"}">>

PyRepr(v) == IF v.t = "str" THEN <<"'">> \o v.s \o <<"'">> ELSE PyStr(v)

\* bool(v)
PyBool(v) ==
    CASE v.t = "bool" -> v.b
      [] v.t = "int"  -> v.n # 0
      [] v.t = "null" -> FALSE
      [] v.t = "str"  -> v.s # <<>>
      [] v.t = "list" -> v.items # <<>>
      [] v.t = "dict" -> v.keys # <<>>

\* int(v): [ok |-> TRUE, n] or [ok |-> FALSE, exc].  int(str) takes an optional
\* sign and decimal digits, surrounded by whitespace.
PyInt(v) ==
    CASE v.t = "int"  -> [ok |-> TRUE, n |-> v.n, exc |-> ""]
      [] v.t = "bool" -> [ok |-> TRUE, n |-> IF v.b THEN 1 ELSE 0, exc |-> ""]
      [] v.t = "str"  ->
            LET x == Strip(v.s)
                signed == x # <<>> /\ x[1] \in {"+", "-"}
                ds == IF signed THEN Tail(x) ELSE x
            IN  IF ds # <<>> /\ \A i \in DOMAIN ds : IsDigit(ds[i])
                THEN [ok |-> TRUE, exc |-> "",
                      n |-> IF signed /\ x[1] = "-" THEN 0 - DigitsValue(ds)
                            ELSE DigitsValue(ds)]
                ELSE [ok |-> FALSE, n |-> 0, exc |-> "ValueError"]
      [] OTHER -> [ok |-> FALSE, n |-> 0, exc |-> "TypeError"]

(***************************************************************************)
(* JobConfig                                                               *)
(***************************************************************************)

DefaultTimeout == 300

\* JobConfig(pass_expected, timeout, log_patterns); __post_init__ makes modules []
JobConfig(pass_expected, timeout, log_patterns) ==
    [kind |-> "JobConfig", pass_expected |-> pass_expected, timeout |-> timeout,
     log_patterns |-> log_patterns, modules |-> <<>>]

\* JobConfig(): the dataclass defaults
DefaultJobConfig == JobConfig(TRUE, DefaultTimeout, <<>>)

\* placeholder f"__ARRAY_{array_counter}__"
ArrayPlaceholder(array_counter) ==
    <<"_", "_", "A", "R", "R", "A", "Y", "_">> \o Decimal(array_counter) \o <<"_", "_">>

\* \s of the re module
IsReSpace(c) == c \in {" ", "\t", "\n", "\r", "\f"}

RECURSIVE SkipReWs(_, _)
SkipReWs(s, i) == IF i <= Len(s) /\ IsReSpace(s[i]) THEN SkipReWs(s, i + 1) ELSE i

\* [^\[\]]*\] from position j: the position of the closing "]", 0 if a bracket
\* or the end of the text comes first
RECURSIVE ArrayEnd(_, _)
ArrayEnd(s, j) ==
    IF j > Len(s) THEN 0
    ELSE IF s[j] = "]" THEN j
    ELSE IF s[j] = "[" THEN 0
    ELSE ArrayEnd(s, j + 1)

\* re.sub(r'\[[^\[\]]*\]', replace_array, config_str): the text with every
\* match replaced by its placeholder, and array_contents in insertion order
\* (array_counter is its length)
RECURSIVE ProtectArrays(_, _, _, _)
ProtectArrays(s, i, out, array_contents) ==
    IF i > Len(s) THEN [text |-> out, array_contents |-> array_contents]
    ELSE IF s[i] = "[" /\ ArrayEnd(s, i + 1) # 0 THEN
        ProtectArrays(s, ArrayEnd(s, i + 1) + 1,
                      out \o ArrayPlaceholder(Len(array_contents)),
                      Append(array_contents, SubSeq(s, i, ArrayEnd(s, i + 1))))
    ELSE ProtectArrays(s, i + 1, Append(out, s[i]), array_contents)

RECURSIVE WordEnd(_, _)
WordEnd(s, i) == IF i <= Len(s) /\ IsWordChar(s[i]) THEN WordEnd(s, i + 1) ELSE i

\* key quoting that leaves the text as it is
QuoteKeys_none(s, i, out) == s

\* re.sub(r'(\w+):', r'"\1":', config_str)
RECURSIVE QuoteKeys(_, _, _)
QuoteKeys(s, i, out) ==
    IF i > Len(s) THEN out
    ELSE IF IsWordChar(s[i]) THEN
        LET e == WordEnd(s, i)
        IN  IF e <= Len(s) /\ s[e] = ":"
            THEN QuoteKeys(s, e + 1, out \o <<"\"">> \o SubSeq(s, i, e - 1) \o <<"\"", ":">>)
            ELSE QuoteKeys(s, e, out \o SubSeq(s, i, e - 1))
    ELSE QuoteKeys(s, i + 1, Append(out, s[i]))

\* the lookahead (?=\s*[,}]) at position e
ValueEnds(s, e) ==
    LET j == SkipReWs(s, e) IN j <= Len(s) /\ s[j] \in {",", "}"}

\* re.sub(r':\s*(w1|w2)(?=\s*[,}])', ..., config_str) for the alternatives words:
\* with quote the match becomes ': "word"', without it ': ' and the word
\* lower-cased
RECURSIVE SubBareValues(_, _, _, _, _)
SubBareValues(s, i, out, words, quote) ==
    IF i > Len(s) THEN out
    ELSE IF s[i] = ":" THEN
        LET k == SkipReWs(s, i + 1)
            alts == SelectSeq(words,
                        LAMBDA w : StartsWithAt(s, w, k) /\ ValueEnds(s, k + Len(w)))
        IN  IF alts # <<>>
            THEN SubBareValues(s, k + Len(Head(alts)),
                     out \o (IF quote
                             THEN <<":", " ", "\"">> \o Head(alts) \o <<"\"">>
                             ELSE <<":", " ">> \o Lower(Head(alts))),
                     words, quote)
            ELSE SubBareValues(s, i + 1, Append(out, s[i]), words, quote)
    ELSE SubBareValues(s, i + 1, Append(out, s[i]), words, quote)

\* str.replace(old, new), old not empty
RECURSIVE ReplaceAll(_, _, _, _, _)
ReplaceAll(s, old, new, i, out) ==
    IF i > Len(s) THEN out
    ELSE IF StartsWithAt(s, old, i) THEN ReplaceAll(s, old, new, i + Len(old), out \o new)
    ELSE ReplaceAll(s, old, new, i + 1, Append(out, s[i]))

\* for placeholder, original in array_contents.items(): replace
RECURSIVE RestoreArrays(_, _, _)
RestoreArrays(s, array_contents, k) ==
    IF k > Len(array_contents) THEN s
    ELSE RestoreArrays(ReplaceAll(s, ArrayPlaceholder(k - 1), array_contents[k], 1, <<>>),
                       array_contents, k + 1)

_normalize_config_string(cfg) ==
    LET protected == ProtectArrays(Strip(cfg), 1, <<>>, <<>>)
        keyed     == QuoteKeys(protected.text, 1, <<>>)
        yesno     == SubBareValues(keyed, 1, <<>>, <<TextYes, TextNo>>, TRUE)
        lowered   == SubBareValues(yesno, 1, <<>>, <<TextTrue, TextFalse>>, FALSE)
    IN  RestoreArrays(lowered, protected.array_contents, 1)

\* lines 84-97: log_patterns from config_dict (a dict)
LogPatternsOf(config_dict) ==
    IF ~DictHas(config_dict, TextLog) THEN <<>>
    ELSE
        LET log_config == DictGet(config_dict, TextLog)
        IN  IF log_config.t = "list"
            THEN [i \in 1..Len(log_config.items) |-> JStr(PyStr(log_config.items[i]))]
            ELSE IF log_config.t = "str" THEN
                LET parsed == json_loads(log_config.s)
                IN  IF parsed.ok /\ parsed.val.t = "list" THEN parsed.val.items
                    ELSE <<JStr(log_config.s)>>
            ELSE <<>>

\* lines 99-104: pass_expected from config_dict (a dict)
PassExpectedOf(config_dict) ==
    LET pass_value ==
            IF DictHas(config_dict, TextPass) THEN DictGet(config_dict, TextPass)
            ELSE JStr(TextYes)
    IN  IF pass_value.t = "str"
        THEN Lower(pass_value.s) \in {TextYes, LitTrue}
        ELSE PyBool(pass_value)

\* lines 84-110 on the parsed value config_dict, whatever its type
ConfigFromValue(config_dict) ==
    IF config_dict.t \in {"int", "bool", "null"}
    THEN Raised("TypeError")        \* 'log' in config_dict
    ELSE IF config_dict.t = "str" THEN
        IF Contains(config_dict.s, TextLog)
        THEN Raised("TypeError")    \* config_dict['log']
        ELSE Raised("AttributeError")  \* config_dict.get
    ELSE IF config_dict.t = "list" THEN
        IF JStr(TextLog) \in Range(config_dict.items)
        THEN Raised("TypeError")
        ELSE Raised("AttributeError")
    ELSE
        LET timeout == PyInt(IF DictHas(config_dict, TextTimeout)
                             THEN DictGet(config_dict, TextTimeout)
                             ELSE JInt(DefaultTimeout))
        IN  IF ~timeout.ok THEN Raised(timeout.exc)
            ELSE JobConfig(PassExpectedOf(config_dict), timeout.n,
                           LogPatternsOf(config_dict))

\* JobConfig.from_string(config_str): a JobConfig, or the exception that
\* leaves the method
from_string(cfg) ==
    LET strict == json_loads(cfg)
    IN  IF strict.ok THEN ConfigFromValue(strict.val)
        ELSE LET second == json_loads(_normalize_config_string(cfg))
             IN  IF second.ok THEN ConfigFromValue(second.val)
                 ELSE DefaultJobConfig

(***************************************************************************)
(* JobConfigParser.  A job file is [readable, first_line]: whether open()  *)
(* and readline() succeed, and the first line without its line end.  The   *)
(* YAML body of the job files of this model is empty, for which            *)
(* parse_yaml_modules returns [].                                          *)
(***************************************************************************)

JobFile(readable, first_line) == [readable |-> readable, first_line |-> first_line]

NoJobFile == JobFile(FALSE, <<>>)

\* parse_job_config(job_file): a JobConfig, or the exception that leaves it
parse_job_config(jf) ==
    IF ~jf.readable THEN DefaultJobConfig      \* IOError, UnicodeDecodeError: pass
    ELSE
        LET first_line == Strip(jf.first_line)
            config_text == Strip(Tail(first_line))
        IN  IF StartsWith(first_line, <<"#">>) /\ config_text # <<>>
            THEN from_string(config_text)
            ELSE DefaultJobConfig

(***************************************************************************)
(* LogMatchResult                                                          *)
(***************************************************************************)

LogMatchResult(pats, matched, unmatched, details) ==
    [kind |-> "LogMatchResult", patterns |-> pats, matched_patterns |-> matched,
     unmatched_patterns |-> unmatched, match_details |-> details]

\* the empty dict {}
EmptyDict == <<>>

\* all_matched without the non-emptiness test
all_matched_vacuous(lmr) == Len(lmr.unmatched_patterns) = 0

all_matched(lmr) == Len(lmr.unmatched_patterns) = 0 /\ Len(lmr.patterns) > 0

has_patterns(lmr) == Len(lmr.patterns) > 0

(***************************************************************************)
(* LogPatternMatcher                                                       *)
(***************************************************************************)

\* A pattern is a Python object, as json.loads made it: pattern.s is the text
\* of a str.  An object that is no str has no startswith.
HasStartswith(pattern) == pattern.t = "str"

_is_regex_pattern(pattern) == StartsWith(pattern.s, <<"^">>)

\* re.compile(pattern) raises re.error: over the pattern alphabet of this
\* model ("(" without any ")") exactly when the pattern opens a group.
RegexError(pattern) == \E i \in 1..Len(pattern) : pattern[i] = "("

\* The compiled pattern matched at line position pos: "^" asserts the start of
\* the string, "." is any character, every other character is itself.
RECURSIVE RegexMatchHere(_, _, _, _)
RegexMatchHere(pattern, pi, line, pos) ==
    IF pi > Len(pattern) THEN TRUE
    ELSE IF pattern[pi] = "^" THEN
        pos = 1 /\ RegexMatchHere(pattern, pi + 1, line, pos)
    ELSE IF pattern[pi] = "." THEN
        pos <= Len(line) /\ RegexMatchHere(pattern, pi + 1, line, pos + 1)
    ELSE
        /\ pos <= Len(line)
        /\ line[pos] = pattern[pi]
        /\ RegexMatchHere(pattern, pi + 1, line, pos + 1)

\* search that ignores the anchor: the text after "^" found anywhere in the line
RegexSearch_unanchored(pattern, line) ==
    \E pos \in 1..(Len(line) + 1) : RegexMatchHere(Tail(pattern), 1, line, pos)

\* regex_pattern.search(line): a match starting at any position of the line
RegexSearch(pattern, line) ==
    \E pos \in 1..(Len(line) + 1) : RegexMatchHere(pattern, 1, line, pos)

\* a test that looks for the pattern at the start of the line only
LineMatches_startswith(pattern, line_stripped) ==
    line_stripped # <<>> /\ StartsWith(line_stripped, pattern.s)

\* the test one line has to pass in each of the three loops of _match_pattern
LineMatches(pattern, line_stripped) ==
    /\ line_stripped # <<>>
    /\ IF _is_regex_pattern(pattern) THEN
           IF RegexError(pattern.s)
           THEN Contains(line_stripped, Tail(pattern.s))
           ELSE RegexSearch(pattern.s, line_stripped)
       ELSE Contains(line_stripped, pattern.s)

_match_pattern(pattern, log_text) ==
    IF log_text = << <<>> >> THEN <<>>
    ELSE LET stripped == [i \in 1..Len(log_text) |-> Strip(log_text[i])]
         IN SelectSeq(stripped, LAMBDA l : LineMatches(pattern, l))

JobFileMarker == <<"J", "o", "b", " ", "f", "i", "l", "e", ":">>
TestsMarker   == <<"/", "t", "e", "s", "t", "s", "/">>
JobSetupTitle == <<"J", "o", "b", " ", "S", "e", "t", "u", "p">>
Divider       == <<"-", "-", "-", "-", "-", "-", "-">>

\* a loop that, once skipping, drops every line that is not blank, "=" or "-"
RECURSIVE FilterLoop_keeps_skipping(_, _, _)
FilterLoop_keeps_skipping(lines, skip_line, filtered_lines) ==
    IF lines = <<>> THEN filtered_lines
    ELSE
        LET line == Head(lines)
            stripped == Strip(line)
            rest == Tail(lines)
        IN  IF \/ stripped = <<>>
               \/ StartsWith(stripped, <<"=">>)
               \/ StartsWith(stripped, <<"-">>)
            THEN FilterLoop_keeps_skipping(rest, skip_line, Append(filtered_lines, line))
            ELSE IF \/ (Contains(line, JobFileMarker) /\ Contains(line, TestsMarker))
                    \/ Contains(line, JobSetupTitle)
            THEN FilterLoop_keeps_skipping(rest, TRUE, filtered_lines)
            ELSE IF skip_line
            THEN FilterLoop_keeps_skipping(rest, TRUE, filtered_lines)
            ELSE FilterLoop_keeps_skipping(rest, skip_line, Append(filtered_lines, line))

\* a loop that keeps every line, without its leading and trailing blanks
FilterLoop_strips(lines, skip_line, filtered_lines) ==
    filtered_lines \o [i \in 1..Len(lines) |-> Strip(lines[i])]

\* the loop of _filter_job_setup_content over the remaining lines
RECURSIVE FilterLoop(_, _, _)
FilterLoop(lines, skip_line, filtered_lines) ==
    IF lines = <<>> THEN filtered_lines
    ELSE
        LET line == Head(lines)
            stripped == Strip(line)
            rest == Tail(lines)
        IN  IF \/ stripped = <<>>
               \/ StartsWith(stripped, <<"=">>)
               \/ StartsWith(stripped, <<"-">>)
            THEN FilterLoop(rest, skip_line, Append(filtered_lines, line))
            ELSE IF \/ (Contains(line, JobFileMarker) /\ Contains(line, TestsMarker))
                    \/ Contains(line, JobSetupTitle)
            THEN FilterLoop(rest, TRUE, filtered_lines)
            ELSE IF skip_line THEN
                IF \/ (StartsWith(stripped, <<"-">>) /\ Contains(stripped, <<":">>))
                   \/ (StartsWith(line, <<" ">>) /\ Contains(stripped, <<":">>))
                   \/ StartsWith(stripped, <<"#">>)
                THEN FilterLoop(rest, skip_line, filtered_lines)
                ELSE IF StartsWith(stripped, Divider)
                THEN FilterLoop(rest, FALSE, filtered_lines)
                ELSE FilterLoop(rest, FALSE, Append(filtered_lines, line))
            ELSE FilterLoop(rest, skip_line, Append(filtered_lines, line))

\* '\n'.join(filtered_lines): of no lines it is the empty text
_filter_job_setup_content(output) ==
    LET filtered_lines == FilterLoop(output, FALSE, <<>>)
    IN  IF filtered_lines = <<>> THEN << <<>> >> ELSE filtered_lines

\* an assignment that records nothing
DictSet_dropped(d, k, v) == d

\* match_details[pattern] = lines
DictSet(d, k, v) == [x \in (DOMAIN d) \cup {k} |-> IF x = k THEN v ELSE d[x]]

\* the loop with the else branch taken for every pattern
RECURSIVE MatchLoop_no_else(_, _, _, _, _)
MatchLoop_no_else(pats, combined_log, matched, unmatched, details) ==
    IF pats = <<>> THEN
        [raised |-> FALSE, matched |-> matched, unmatched |-> unmatched, details |-> details]
    ELSE IF ~HasStartswith(Head(pats)) THEN
        [raised |-> TRUE, matched |-> matched, unmatched |-> unmatched, details |-> details]
    ELSE
        LET pattern == Head(pats)
            matched_lines == _match_pattern(pattern, combined_log)
        IN  MatchLoop_no_else(Tail(pats), combined_log,
                IF matched_lines # <<>> THEN Append(matched, pattern) ELSE matched,
                Append(unmatched, pattern), DictSet(details, pattern, matched_lines))

\* the loop of match_patterns over the remaining patterns; raised: the
\* AttributeError of pattern.startswith on a pattern that is no str
RECURSIVE MatchLoop(_, _, _, _, _)
MatchLoop(pats, combined_log, matched, unmatched, details) ==
    IF pats = <<>> THEN
        [raised |-> FALSE, matched |-> matched, unmatched |-> unmatched, details |-> details]
    ELSE IF ~HasStartswith(Head(pats)) THEN
        [raised |-> TRUE, matched |-> matched, unmatched |-> unmatched, details |-> details]
    ELSE
        LET pattern == Head(pats)
            matched_lines == _match_pattern(pattern, combined_log)
        IN  IF matched_lines # <<>>
            THEN MatchLoop(Tail(pats), combined_log, Append(matched, pattern),
                           unmatched, DictSet(details, pattern, matched_lines))
            ELSE MatchLoop(Tail(pats), combined_log, matched,
                           Append(unmatched, pattern), DictSet(details, pattern, <<>>))

\* a LogMatchResult, or the exception that leaves match_patterns
match_patterns(pats, out, err) ==
    IF pats = <<>> THEN LogMatchResult(<<>>, <<>>, <<>>, EmptyDict)
    ELSE
        LET filtered_stdout == _filter_job_setup_content(out)
            filtered_stderr == _filter_job_setup_content(err)
            \* f"{filtered_stdout}\n{filtered_stderr}", as lines
            combined_log == filtered_stdout \o filtered_stderr
            r == MatchLoop(pats, combined_log, <<>>, <<>>, EmptyDict)
        IN  IF r.raised THEN Raised("AttributeError")
            ELSE LogMatchResult(pats, r.matched, r.unmatched, r.details)

(***************************************************************************)
(* TestResult                                                              *)
(***************************************************************************)

\* success that leaves the log matching out
success_execution_only(self) ==
    IF self.expected_pass THEN self.status = "PASS" ELSE self.status = "FAIL"

\* TestResult.success; a LogMatchResult object is truthy
success(self) ==
    LET execution_success ==
            IF self.expected_pass THEN self.status = "PASS" ELSE self.status = "FAIL"
        log_match_success ==
            IF has_patterns(self.log_match_result)
            THEN all_matched(self.log_match_result)
            ELSE TRUE
    IN  execution_success /\ log_match_success

\* a message: a format and the text that replaces its {}
Message(msg, arg) == [msg |-> msg, arg |-> arg]

NoMessage == Message("", <<>>)

EmptyText == << <<>> >>

\* job_file.name
\* the job_file argument of the running run_test
JobFileName ==
    IF batch_pc = "RUNNING" THEN job_files[batch_index]
    ELSE <<"c", "a", "s", "e", ".", "j", "o", "b">>

\* TestResult(job_file=job_file.name, status=..., expected_pass=config.pass_expected,
\* timeout_limit=config.timeout, modules=config.modules, ...), and its success
\* property as the callers read it
TestResult(status, cfg, runtime, out, err, error_msg, log_match_result) ==
    LET self == [status |-> status, expected_pass |-> cfg.pass_expected,
                 log_match_result |-> log_match_result]
    IN  [kind |-> "TestResult", job_file |-> JobFileName, status |-> status,
         expected_pass |-> cfg.pass_expected, runtime |-> runtime,
         timeout_limit |-> cfg.timeout, modules |-> cfg.modules,
         stdout |-> out, stderr |-> err, error_msg |-> error_msg,
         log_match_result |-> log_match_result, success |-> success(self)]

(***************************************************************************)
(* SingleTestRunner                                                        *)
(***************************************************************************)

\* self.test_env.geodelity_dir
GeodelityDir == <<"/", "g", "d">>

env_script  == GeodelityDir \o <<"/", "e", "t", "c", "/", "e", "n", "v", ".", "s", "h">>
grun_script == GeodelityDir \o <<"/", "b", "i", "n", "/", "g", "r", "u", "n", ".", "s", "h">>

\* a result that reports every configured pattern as matched
ErrorLogMatchResult_all_matched(cfg) ==
    LogMatchResult(cfg.log_patterns, cfg.log_patterns, <<>>, EmptyDict)

\* the LogMatchResult of the error paths: no matching was done
ErrorLogMatchResult(cfg) ==
    LogMatchResult(cfg.log_patterns, <<>>, cfg.log_patterns, EmptyDict)

_perform_log_matching(cfg, out, err) ==
    IF cfg.log_patterns # <<>>
    THEN match_patterns(cfg.log_patterns, out, err)
    ELSE LogMatchResult(<<>>, <<>>, <<>>, EmptyDict)

\* type(v).__name__
TypeName(v) ==
    CASE v.t = "int"  -> <<"i", "n", "t">>
      [] v.t = "bool" -> <<"b", "o", "o", "l">>
      [] v.t = "null" -> <<"N", "o", "n", "e", "T", "y", "p", "e">>
      [] v.t = "list" -> <<"l", "i", "s", "t">>
      [] v.t = "dict" -> <<"d", "i", "c", "t">>
      [] OTHER        -> <<"s", "t", "r">>

\* str(e) of the AttributeError match_patterns raises: it names the type of
\* the first pattern that is no str
StrAttributeError(pats) ==
    LET i == CHOOSE k \in DOMAIN pats :
                 /\ ~HasStartswith(pats[k])
                 /\ \A j \in 1..(k - 1) : HasStartswith(pats[j])
    IN  Message("'{}' object has no attribute 'startswith'", TypeName(pats[i]))

\* What subprocess.run(['bash', '-c', command], timeout=config.timeout, ...)
\* did: it returned a CompletedProcess, it raised TimeoutExpired carrying the
\* output captured so far, or it raised another exception.  elapsed is the
\* whole number of seconds from start_time.
NoProcess == [kind |-> "none", returncode |-> 0, stdout |-> EmptyText,
              stderr |-> EmptyText, elapsed |-> 0, error |-> NoMessage]

CompletedProcess(returncode, out, err, elapsed) ==
    [kind |-> "completed", returncode |-> returncode, stdout |-> out,
     stderr |-> err, elapsed |-> elapsed, error |-> NoMessage]

\* e.stdout.decode('utf-8') if e.stdout else "", and the same for stderr
TimeoutExpired(out, err, elapsed) ==
    [kind |-> "timeout", returncode |-> 0, stdout |-> out,
     stderr |-> err, elapsed |-> elapsed, error |-> NoMessage]

OtherException(error) ==
    [kind |-> "exception", returncode |-> 0, stdout |-> EmptyText,
     stderr |-> EmptyText, elapsed |-> 0, error |-> error]

(***************************************************************************)
(* Inputs of the matcher: output lines and patterns.                       *)
(***************************************************************************)

MaxLines == 2
MaxPatterns == 2

Line ==
    [ empty |-> <<>>,
      error_start |-> <<"E", "R", "R", "O", "R", " ", "x">>,
      error_mid |-> <<"x", " ", "E", "R", "R", "O", "R">>,
      error_indented |-> <<" ", " ", "E", "R", "R", "O", "R">>,
      lower |-> <<"e", "r", "r", "o", "r">>,
      paren |-> <<"x", " ", "(", "o", "k">>,
      started_ok |-> <<"s", "t", "a", "r", "t", "e", "d", " ", "o", "k">>,
      banner |-> <<"J", "o", "b", " ", "S", "e", "t", "u", "p">>,
      job_file |-> <<"J", "o", "b", " ", "f", "i", "l", "e", ":", " ", "/",
          "t", "e", "s", "t", "s", "/", "a", ".", "j", "o", "b">>,
      yaml_indented |-> <<" ", " ", "n", "a", "m", "e", ":", " ", "s", "t",
          "a", "r", "t", "e", "d">>,
      yaml_dash |-> <<"-", " ", "m", "o", "d", ":", " ", "E", "R", "R", "O",
          "R">>,
      yaml_key_error |-> <<" ", " ", "k", "e", "y", ":", " ", "E", "R", "R",
          "O", "R">>,
      comment |-> <<"#", " ", "E", "R", "R", "O", "R">>,
      divider |-> <<"-", "-", "-", "-", "-", "-", "-", "-", "-", "-">> ]

Pattern ==
    [ error |-> <<"E", "R", "R", "O", "R">>,
      regex_error |-> <<"^", "E", "R", "R", "O", "R">>,
      bad_regex |-> <<"^", "(", "o", "k">>,
      started |-> <<"s", "t", "a", "r", "t", "e", "d">>,
      number |-> JInt(1) ]

LineMenu ==
    { Line.empty, Line.error_start, Line.error_mid, Line.error_indented, Line.lower,
      Line.paren }

\* patterns as from_string delivers them: strs, and a number that
\* "log": "[1, 2]" leaves in log_patterns
PatternMenu ==
    { JStr(Pattern.error), JStr(Pattern.regex_error), JStr(Pattern.bad_regex),
      JStr(Pattern.started), Pattern.number }

\* outputs in which the job runner echoes the job's configuration
SetupEchoTexts ==
    { <<Line.banner, Line.yaml_indented, Line.divider, Line.started_ok>>,
      <<Line.banner, Line.yaml_dash, Line.divider, Line.yaml_key_error>>,
      <<Line.job_file, Line.comment, Line.error_start>>,
      <<Line.job_file, Line.yaml_indented, Line.yaml_key_error, Line.divider,
        Line.started_ok>> }

SeqsOfLen(S, lo, hi) == UNION {[1..k -> S] : k \in lo..hi}

\* a text has at least one line: "".split('\n') == ['']
StdoutTexts == SeqsOfLen(LineMenu, 1, MaxLines) \cup SetupEchoTexts

StderrTexts == { <<Line.empty>>, <<Line.error_mid>>, <<Line.banner, Line.yaml_key_error>> }

PatternLists == SeqsOfLen(PatternMenu, 0, MaxPatterns)

(***************************************************************************)
(* The matcher called on its own: match_patterns(patterns, stdout, stderr) *)
(***************************************************************************)

MatchIdle ==
    /\ patterns = <<>>
    /\ stdout = <<Line.empty>>
    /\ stderr = <<Line.empty>>
    /\ match_pc = "idle"
    /\ match_result = None

MatchInit ==
    /\ patterns \in PatternLists
    /\ stdout \in StdoutTexts
    /\ stderr \in StderrTexts
    /\ match_pc = "call"
    /\ match_result = None

\* result = matcher.match_patterns(patterns, stdout, stderr), then the two
\* properties of the result are read
MatchPatterns ==
    /\ match_pc = "call"
    /\ LET lmr == match_patterns(patterns, stdout, stderr)
       IN  match_result' =
               IF lmr.kind = "raised" THEN lmr
               ELSE [kind |-> "LogMatchResult",
                     patterns |-> lmr.patterns,
                     matched_patterns |-> lmr.matched_patterns,
                     unmatched_patterns |-> lmr.unmatched_patterns,
                     match_details |-> lmr.match_details,
                     all_matched |-> all_matched(lmr),
                     has_patterns |-> has_patterns(lmr)]
    /\ match_pc' = "returned"
    /\ UNCHANGED <<patterns, stdout, stderr, parseVars, runVars, batchVars, envVars,
                   yamlVars, testerVars, builderVars>>

(***************************************************************************)
(* Inputs of the parser: directives.  A directive is written in one of     *)
(* four styles from an optional pass, timeout and log field; a few         *)
(* directives that are no object are added.                                *)
(***************************************************************************)

MaxLogPatterns == 2

Absent == [has |-> FALSE, text |-> <<>>]
Given(text) == [has |-> TRUE, text |-> text]

Quoted(text) == <<"\"">> \o text \o <<"\"">>

\* the elements a log array is written with
Element ==
    [ ok |-> Quoted(<<"o", "k">>),
      key_like |-> Quoted(<<"e", ":", " ", "f">>),
      class |-> Quoted(<<"[", "a", "]", " ", "e", ":", " ", "f">>),
      number |-> <<"1">> ]

LogElementMenu == {Element.ok, Element.key_like, Element.class, Element.number}

ArrayText(elems) == <<"[">> \o JoinComma(elems) \o <<"]">>

PassValues ==
    { Absent, Given(TextYes), Given(TextNo), Given(TextTrue), Given(TextFalse),
      Given(Quoted(TextNo)), Given(Quoted(<<"T", "R", "U", "E">>)), Given(LitFalse), Given(<<"0">>) }

TimeoutValues ==
    { Absent, Given(<<"5">>), Given(Quoted(<<"1", "0">>)), Given(Quoted(<<"a", "b", "c">>)),
      Given(LitNull) }

\* a log string that is no JSON, one that is a JSON array of numbers, one that
\* is a JSON array of strings, one that holds "word:", and a log that is a number
LogText ==
    [ plain |-> Quoted(<<"o", "k">>),
      number_array |-> Quoted(<<"[", "1", ",", " ", "2", "]">>),
      string_array |-> Quoted(<<"[", "\\", "\"", "o", "k", "\\", "\"", "]">>),
      key_like |-> Quoted(<<"e", ":", " ", "f">>) ]

LogValues ==
    { Absent, Given(LogText.plain), Given(LogText.number_array), Given(LogText.string_array),
      Given(LogText.key_like), Given(<<"5">>) }
    \cup { Given(ArrayText(elems)) : elems \in SeqsOfLen(LogElementMenu, 0, MaxLogPatterns) }

Styles == {"json", "js", "compact", "logfirst"}

KeyText(style, key) == IF style = "json" THEN Quoted(key) ELSE key

FieldText(style, key, value) ==
    KeyText(style, key) \o (IF style = "compact" THEN <<":">> ELSE <<":", " ">>) \o value.text

RECURSIVE JoinWith(_, _)
JoinWith(parts, sep) ==
    IF parts = <<>> THEN <<>>
    ELSE IF Len(parts) = 1 THEN parts[1]
    ELSE parts[1] \o sep \o JoinWith(Tail(parts), sep)

\* the text of the directive with the given fields
DirectiveText(style, pass, timeout, log) ==
    LET p == <<[key |-> TextPass, value |-> pass]>>
        t == <<[key |-> TextTimeout, value |-> timeout]>>
        l == <<[key |-> TextLog, value |-> log]>>
        ordered == IF style = "logfirst" THEN l \o t \o p ELSE p \o t \o l
        present == SelectSeq(ordered, LAMBDA f : f.value.has)
        texts == [i \in 1..Len(present) |-> FieldText(style, present[i].key, present[i].value)]
    IN  <<"{">> \o JoinWith(texts, IF style = "compact" THEN <<",">> ELSE <<",", " ">>)
              \o <<"}">>

Written(style, pass, timeout, log) ==
    [style |-> style, pass |-> pass, timeout |-> timeout, log |-> log]

\* directives that are no object, or no JSON at all even after normalization
Directive ==
    [ number |-> <<"5">>,
      array |-> <<"[", "1", ",", " ", "2", "]">>,
      log_array |-> <<"[", "\"", "l", "o", "g", "\"", "]">>,
      string |-> <<"\"", "c", "a", "t", "a", "l", "o", "g", "\"">>,
      no_colon |-> <<"{", "p", "a", "s", "s", " ", "n", "o", "}">>,
      capital_yes |-> <<"{", "p", "a", "s", "s", ":", " ", "Y", "e", "s", "}">> ]

OtherDirectives ==
    { <<>>, Directive.number, LitNull, Directive.array, Directive.log_array,
      Directive.string, Directive.no_colon, Directive.capital_yes }

\* what the first line of a job file holds before the directive
Markers == { <<"#">>, <<"#", " ">>, <<>> }

ParseIdle ==
    /\ written = Written("other", Absent, Absent, Absent)
    /\ config_str = <<>>
    /\ job_file = NoJobFile
    /\ parse_pc = "idle"
    /\ normalized = None
    /\ from_result = None
    /\ job_config = None

ParseInit ==
    /\ \/ \E style \in Styles, pass \in PassValues, timeout \in TimeoutValues,
             log \in LogValues :
            /\ written = Written(style, pass, timeout, log)
            /\ config_str = DirectiveText(style, pass, timeout, log)
       \/ /\ written = Written("other", Absent, Absent, Absent)
          /\ config_str \in OtherDirectives
    /\ job_file = NoJobFile
    /\ parse_pc = "start"
    /\ normalized = None
    /\ from_result = None
    /\ job_config = None

\* normalized = JobConfig._normalize_config_string(config_str)
Normalize ==
    /\ parse_pc = "start"
    /\ normalized' = [kind |-> "str", text |-> _normalize_config_string(config_str)]
    /\ parse_pc' = "normalized"
    /\ UNCHANGED <<written, config_str, job_file, from_result, job_config, matchVars, runVars, batchVars, envVars,
                   yamlVars, testerVars, builderVars>>

\* from_result = JobConfig.from_string(config_str)
FromString ==
    /\ parse_pc = "normalized"
    /\ from_result' = from_string(config_str)
    /\ parse_pc' = "parsed"
    /\ UNCHANGED <<written, config_str, job_file, normalized, job_config, matchVars, runVars, batchVars, envVars,
                   yamlVars, testerVars, builderVars>>

\* job_config = JobConfigParser.parse_job_config(job_file), for a job file
\* whose first line is a marker followed by the directive
ParseJobConfig ==
    /\ parse_pc = "parsed"
    /\ \E m \in Markers, readable \in BOOLEAN :
        /\ job_file' = JobFile(readable, m \o config_str)
        /\ job_config' = parse_job_config(job_file')
    /\ parse_pc' = "done"
    /\ UNCHANGED <<written, config_str, normalized, from_result, matchVars, runVars, batchVars, envVars,
                   yamlVars, testerVars, builderVars>>

(***************************************************************************)
(* One invocation of run_test(job_file).  Inputs: the job file, whether    *)
(* the two scripts exist, and what the subprocess does.                    *)
(***************************************************************************)

\* first lines of job files:
\*   started       # {"pass":"yes","timeout":1,"log":["started"]}
\*   js_fail       # {pass: no, timeout: 5}
\*   no_directive  - mod:
\*   two_patterns  # {"pass": "no", "log": ["ERROR", "^ERROR"]}
\*   number_log    # {"log": "[1, 2]"}
\*   number        # 5
FirstLine ==
    [ started |-> <<"#", " ", "{", "\"", "p", "a", "s", "s", "\"", ":", "\"",
          "y", "e", "s", "\"", ",", "\"", "t", "i", "m", "e", "o", "u", "t",
          "\"", ":", "1", ",", "\"", "l", "o", "g", "\"", ":", "[", "\"", "s",
          "t", "a", "r", "t", "e", "d", "\"", "]", "}">>,
      js_fail |-> <<"#", " ", "{", "p", "a", "s", "s", ":", " ", "n", "o", ",",
          " ", "t", "i", "m", "e", "o", "u", "t", ":", " ", "5", "}">>,
      no_directive |-> <<"-", " ", "m", "o", "d", ":">>,
      two_patterns |-> <<"#", " ", "{", "\"", "p", "a", "s", "s", "\"", ":",
          " ", "\"", "n", "o", "\"", ",", " ", "\"", "l", "o", "g", "\"", ":",
          " ", "[", "\"", "E", "R", "R", "O", "R", "\"", ",", " ", "\"", "^",
          "E", "R", "R", "O", "R", "\"", "]", "}">>,
      number_log |-> <<"#", " ", "{", "\"", "l", "o", "g", "\"", ":", " ",
          "\"", "[", "1", ",", " ", "2", "]", "\"", "}">>,
      number |-> <<"#", " ", "5">> ]

RunJobs ==
    { JobFile(TRUE, FirstLine.started), JobFile(TRUE, FirstLine.js_fail),
      JobFile(TRUE, FirstLine.no_directive), JobFile(TRUE, FirstLine.two_patterns),
      JobFile(TRUE, FirstLine.number_log), JobFile(TRUE, FirstLine.number), NoJobFile }

ExitCodes == {0, 1}

\* str(e) of an exception of subprocess.run
ExceptionMessages ==
    { Message("[Errno 2] No such file or directory: '{}'", <<"b", "a", "s", "h">>) }

\* the process ends before the timeout expires, or the timeout expires, or
\* starting it fails
\* (the jobs of a batch write one of fewer outputs)
ProcessOutcomes(timeout) ==
    LET outs == IF batch_pc = "idle" THEN StdoutTexts ELSE {<<Line.started_ok>>}
        errs == IF batch_pc = "idle" THEN StderrTexts ELSE {<<Line.empty>>}
    IN  { CompletedProcess(rc, out, err, elapsed) :
              rc \in ExitCodes, out \in outs, err \in errs,
              elapsed \in {e \in {0, 1} : e < timeout} }
        \cup { TimeoutExpired(out, err, IF timeout > 0 THEN timeout ELSE 0) :
                   out \in outs, err \in errs }
        \cup { OtherException(error) : error \in ExceptionMessages }

RunIdle ==
    /\ run_job = NoJobFile
    /\ env_script_exists = FALSE
    /\ grun_script_exists = FALSE
    /\ run_pc = "idle"
    /\ config = None
    /\ proc = NoProcess
    /\ run_result = None

RunInit ==
    /\ run_job \in RunJobs
    /\ env_script_exists \in BOOLEAN
    /\ grun_script_exists \in BOOLEAN
    /\ run_pc = "START"
    /\ config = None
    /\ proc = NoProcess
    /\ run_result = None

\* config = self.config_parser.parse_job_config(job_file); an exception of it
\* leaves run_test
ParseConfig ==
    /\ run_pc = "START"
    /\ LET c == parse_job_config(run_job)
       IN  IF c.kind = "raised"
           THEN /\ run_pc' = "RAISED"
                /\ run_result' = c
                /\ UNCHANGED config
           ELSE /\ run_pc' = "CONFIG_PARSED"
                /\ config' = c
                /\ UNCHANGED run_result
    /\ UNCHANGED <<run_job, env_script_exists, grun_script_exists, proc,
                   parseVars, matchVars, batchVars, envVars,
                   yamlVars, testerVars, builderVars>>

\* the two Path(...).exists() checks, each returning an ERROR result
CheckScripts ==
    /\ run_pc = "CONFIG_PARSED"
    /\ IF ~env_script_exists THEN
           /\ run_result' =
                  TestResult("ERROR", config, 0, EmptyText, EmptyText,
                             Message("Environment script not found: {}", env_script),
                             ErrorLogMatchResult(config))
           /\ run_pc' = "RESULT"
       ELSE IF ~grun_script_exists THEN
           /\ run_result' =
                  TestResult("ERROR", config, 0, EmptyText, EmptyText,
                             Message("GRun script not found: {}", grun_script),
                             ErrorLogMatchResult(config))
           /\ run_pc' = "RESULT"
       ELSE
           /\ run_pc' = "ENV_CHECKED"
           /\ UNCHANGED run_result
    /\ UNCHANGED <<run_job, env_script_exists, grun_script_exists, config, proc,
                   parseVars, matchVars, batchVars, envVars,
                   yamlVars, testerVars, builderVars>>

\* subprocess.run(...)
Execute ==
    /\ run_pc = "ENV_CHECKED"
    /\ \E outcome \in ProcessOutcomes(config.timeout) :
        /\ proc' = outcome
        /\ run_pc' = CASE outcome.kind = "completed" -> "EXECUTED"
                       [] outcome.kind = "timeout"   -> "TIMED_OUT"
                       [] OTHER                      -> "ERRORED"
    /\ UNCHANGED <<run_job, env_script_exists, grun_script_exists, config, run_result,
                   parseVars, matchVars, batchVars, envVars,
                   yamlVars, testerVars, builderVars>>

\* the rest of the try block; an exception of the log matching is caught by
\* "except Exception"
ReturnExecuted ==
    /\ run_pc = "EXECUTED"
    /\ LET status == IF proc.returncode = 0 THEN "PASS" ELSE "FAIL"
           log_match_result == _perform_log_matching(config, proc.stdout, proc.stderr)
       IN  run_result' =
               IF log_match_result.kind = "raised"
               THEN TestResult("ERROR", config, proc.elapsed, EmptyText, EmptyText,
                               StrAttributeError(config.log_patterns),
                               ErrorLogMatchResult(config))
               ELSE TestResult(status, config, proc.elapsed, proc.stdout, proc.stderr,
                               NoMessage, log_match_result)
    /\ run_pc' = "RESULT"
    /\ UNCHANGED <<run_job, env_script_exists, grun_script_exists, config, proc,
                   parseVars, matchVars, batchVars, envVars,
                   yamlVars, testerVars, builderVars>>

\* except subprocess.TimeoutExpired; an exception of the log matching leaves
\* the handler, and run_test
ReturnTimedOut ==
    /\ run_pc = "TIMED_OUT"
    /\ LET log_match_result == _perform_log_matching(config, proc.stdout, proc.stderr)
       IN  IF log_match_result.kind = "raised"
           THEN /\ run_result' = log_match_result
                /\ run_pc' = "RAISED"
           ELSE /\ run_result' =
                       TestResult("TIMEOUT", config, proc.elapsed, proc.stdout, proc.stderr,
                                  Message("Test timed out after {} seconds",
                                          SignedDecimal(config.timeout)),
                                  log_match_result)
                /\ run_pc' = "RESULT"
    /\ UNCHANGED <<run_job, env_script_exists, grun_script_exists, config, proc,
                   parseVars, matchVars, batchVars, envVars,
                   yamlVars, testerVars, builderVars>>

\* except Exception
ReturnErrored ==
    /\ run_pc = "ERRORED"
    /\ run_result' = TestResult("ERROR", config, proc.elapsed, EmptyText, EmptyText,
                                proc.error, ErrorLogMatchResult(config))
    /\ run_pc' = "RESULT"
    /\ UNCHANGED <<run_job, env_script_exists, grun_script_exists, config, proc,
                   parseVars, matchVars, batchVars, envVars,
                   yamlVars, testerVars, builderVars>>

(***************************************************************************)
(* TestRunner: find_job_files and run_all_tests                            *)
(***************************************************************************)

\* the files a tests directory may hold, and the first line of each
FileName ==
    [ a |-> <<"a", ".", "j", "o", "b">>, a10 |-> <<"a", "1", "0", ".", "j", "o", "b">>, b |-> <<"b", ".", "j", "o", "b">>, c |-> <<"c", ".", "j", "o", "b">>, d |-> <<"d", ".", "j", "o", "b">>,
      notes |-> <<"n", "o", "t", "e", "s", ".", "t", "x", "t">> ]

FileContent(name) ==
    CASE name = FileName.a   -> JobFile(TRUE, FirstLine.started)
      [] name = FileName.a10 -> JobFile(TRUE, FirstLine.js_fail)
      [] name = FileName.b   -> JobFile(TRUE, FirstLine.number)
      [] name = FileName.d   -> JobFile(TRUE, FirstLine.number_log)
      [] OTHER               -> JobFile(TRUE, FirstLine.no_directive)

\* ord(c) of the characters of the file names
Ord ==
    [c \in Range(LowerChars) |-> 96 + IndexOf(LowerChars, c)]
    @@ [c \in Range(DigitChars) |-> 47 + IndexOf(DigitChars, c)]
    @@ ("." :> 46) @@ ("/" :> 47) @@ ("_" :> 95)

\* a < b of two str (and of two paths of one directory)
RECURSIVE StrLess(_, _)
StrLess(a, b) ==
    IF b = <<>> THEN FALSE
    ELSE IF a = <<>> THEN TRUE
    ELSE IF Head(a) = Head(b) THEN StrLess(Tail(a), Tail(b))
    ELSE Ord[Head(a)] < Ord[Head(b)]

\* sorted(names)
RECURSIVE sorted(_)
sorted(names) ==
    IF names = {} THEN <<>>
    ELSE LET least == CHOOSE x \in names : \A y \in names \ {x} : StrLess(x, y)
         IN  <<least>> \o sorted(names \ {least})

\* s.endswith(suffix)
EndsWith(s, suffix) == StartsWithAt(s, suffix, Len(s) - Len(suffix) + 1)

\* sorted(tests_dir.glob('*.job'))
find_job_files(dir) == sorted({f \in dir : EndsWith(f, <<".", "j", "o", "b">>)})

BatchIdle ==
    /\ tests_dir = {}
    /\ job_files = <<>>
    /\ batch_index = 0
    /\ invoked = <<>>
    /\ results = <<>>
    /\ batch_pc = "idle"

BatchInit ==
    /\ tests_dir \in SUBSET Range(FileName)
    /\ job_files = <<>>
    /\ batch_index = 0
    /\ invoked = <<>>
    /\ results = <<>>
    /\ batch_pc = "START"
    /\ run_job = NoJobFile
    /\ env_script_exists \in BOOLEAN
    /\ grun_script_exists \in BOOLEAN
    /\ run_pc = "idle"
    /\ config = None
    /\ proc = NoProcess
    /\ run_result = None

\* job_files = self.find_job_files(tests_dir); without job files the empty
\* list is returned
FindJobFiles ==
    /\ batch_pc = "START"
    /\ job_files' = find_job_files(tests_dir)
    /\ batch_index' = 1
    /\ batch_pc' = IF job_files' = <<>> THEN "DONE" ELSE "LOOP"
    /\ UNCHANGED <<tests_dir, invoked, results, parseVars, matchVars, runVars, envVars,
                   yamlVars, testerVars, builderVars>>

\* the loop takes the next job file and calls run_test with it
CallRunTest ==
    /\ batch_pc = "LOOP"
    /\ batch_index <= Len(job_files)
    /\ invoked' = Append(invoked, job_files[batch_index])
    /\ run_job' = FileContent(job_files[batch_index])
    /\ run_pc' = "START"
    /\ config' = None
    /\ proc' = NoProcess
    /\ run_result' = None
    /\ batch_pc' = "RUNNING"
    /\ UNCHANGED <<tests_dir, job_files, batch_index, results, env_script_exists,
                   grun_script_exists, parseVars, matchVars, envVars,
                   yamlVars, testerVars, builderVars>>

\* print_log_match_result(result) raises AttributeError at
\* pattern.startswith of an unmatched pattern that is no str
PrintRaises(result) ==
    /\ has_patterns(result.log_match_result)
    /\ \E i \in DOMAIN result.log_match_result.unmatched_patterns :
           ~HasStartswith(result.log_match_result.unmatched_patterns[i])

\* result = run_test(...); results.append(result); the result is printed,
\* and an exception of the printing leaves run_all_tests; after the last job
\* file the list is returned
AppendResult ==
    /\ batch_pc = "RUNNING"
    /\ run_pc = "RESULT"
    /\ results' = Append(results, run_result)
    /\ batch_index' = batch_index + 1
    /\ batch_pc' = IF PrintRaises(run_result) THEN "RAISED"
                   ELSE IF batch_index' > Len(job_files) THEN "DONE"
                   ELSE "LOOP"
    /\ UNCHANGED <<tests_dir, job_files, invoked, parseVars, matchVars, runVars, envVars,
                   yamlVars, testerVars, builderVars>>

\* no handler surrounds the call: an exception that leaves run_test leaves
\* run_all_tests
PropagateException ==
    /\ batch_pc = "RUNNING"
    /\ run_pc = "RAISED"
    /\ batch_pc' = "RAISED"
    /\ UNCHANGED <<tests_dir, job_files, batch_index, invoked, results,
                   parseVars, matchVars, runVars, envVars,
                   yamlVars, testerVars, builderVars>>

(***************************************************************************)
(* TestEnvironment.setup_environment                                       *)
(***************************************************************************)

MaxJobEnvs == 2

\* values of environment variables
EnvText ==
    [ debug |-> <<"D", "E", "B", "U", "G">>, true |-> <<"t", "r", "u", "e">>, info |-> <<"I", "N", "F", "O">>, false |-> <<"f", "a", "l", "s", "e">>, old |-> <<"/", "o", "l", "d">>,
      path |-> <<"/", "b", "i", "n">>, grun_dir |-> <<"/", "r", "e", "p", "o", "/", "g", "r", "u", "n">>, changed |-> <<"c", "h", "a", "n", "g", "e", "d">> ]

\* d[k] = v of the dict object r
HeapSet(h, r, k, v) == [h EXCEPT ![r] = DictSet(h[r], k, v)]

\* del d[k] of the dict object r
HeapDel(h, r, k) == [h EXCEPT ![r] = [x \in (DOMAIN h[r]) \ {k} |-> h[r][x]]]

\* env = os.environ: the same object, no copy
environ_alias(h) == [heap |-> h, ref |-> 1]

\* os.environ.copy(): a new dict object with the entries of os.environ
environ_copy(h) == [heap |-> Append(h, h[1]), ref |-> Len(h) + 1]

setup_environment(h, self) ==
    LET copied == environ_copy(h)
        env == copied.ref
        h1 == HeapSet(copied.heap, env, "GEODELITY_DIR", self.geodelity_dir)
        h2 == HeapSet(h1, env, "GRUN_DIR", EnvText.grun_dir)
        h3 == IF self.debug THEN HeapSet(h2, env, "GDLOGGING_LEVEL", EnvText.debug) ELSE h2
        h4 == IF self.keep_job_files THEN HeapSet(h3, env, "KEEPJOBFILES", EnvText.true)
              ELSE h3
    IN  [heap |-> h4, ref |-> env]

\* the process environments the runner may inherit
Environs ==
    { [k \in {"PATH"} \cup inherited |->
          CASE k = "PATH"            -> EnvText.path
            [] k = "GEODELITY_DIR"   -> EnvText.old
            [] k = "GDLOGGING_LEVEL" -> EnvText.info
            [] OTHER                 -> EnvText.false] :
      inherited \in SUBSET {"GEODELITY_DIR", "GDLOGGING_LEVEL", "KEEPJOBFILES"} }

EnvIdle ==
    /\ test_env = None
    /\ heap = <<>>
    /\ job_envs = <<>>
    /\ env_pc = "idle"

EnvInit ==
    /\ test_env \in [geodelity_dir : {GeodelityDir}, debug : BOOLEAN,
                      keep_job_files : BOOLEAN]
    /\ heap \in {<<e>> : e \in Environs}
    /\ job_envs = <<>>
    /\ env_pc = "ready"

\* env = self.test_env.setup_environment(), of the run_test of one more job
SetupEnvironment ==
    /\ env_pc = "ready"
    /\ Len(job_envs) < MaxJobEnvs
    /\ LET returned == setup_environment(heap, test_env)
       IN  /\ heap' = returned.heap
           /\ job_envs' = Append(job_envs, returned.ref)
    /\ UNCHANGED <<test_env, env_pc, parseVars, matchVars, runVars, batchVars,
                   yamlVars, testerVars, builderVars>>

\* the holder of a returned map assigns to one of its keys, or deletes it
MutateJobEnv ==
    /\ env_pc = "ready"
    /\ \E i \in DOMAIN job_envs, k \in {"GDLOGGING_LEVEL", "PATH"} :
          \/ heap' = HeapSet(heap, job_envs[i], k, EnvText.changed)
          \/ /\ k \in DOMAIN heap[job_envs[i]]
             /\ heap' = HeapDel(heap, job_envs[i], k)
    /\ UNCHANGED <<test_env, job_envs, env_pc, parseVars, matchVars, runVars, batchVars,
                   yamlVars, testerVars, builderVars>>

(***************************************************************************)
(* JobConfigParser.parse_yaml_modules                                      *)
(*                                                                         *)
(* The YAML library is outside the program: a job file is given by what    *)
(* open()/read() does with it and by what yaml.safe_load() does with its   *)
(* content, a value or an exception.  The first line is dropped only when  *)
(* it is a comment, which YAML ignores anyway.                             *)
(***************************************************************************)

MaxEntries == 2

ModuleInfo(name, version) == [name |-> name, version |-> version]

TextUnknown == <<"u", "n", "k", "n", "o", "w", "n">>
TextVersion == <<"v", "e", "r", "s", "i", "o", "n">>
TextVer     == <<"v", "e", "r">>

Loaded(data) == [kind |-> "data", data |-> data]

YamlFile(open, load) == [open |-> open, load |-> load]

Modules(list) == [kind |-> "modules", list |-> list]

\* the version of one module configuration
module_version(module_config) ==
    IF DictHas(module_config, TextVersion) THEN PyStr(DictGet(module_config, TextVersion))
    ELSE IF DictHas(module_config, TextVer) THEN PyStr(DictGet(module_config, TextVer))
    ELSE TextUnknown

\* for module_name, module_config in item.items()
RECURSIVE ItemLoop(_, _, _)
ItemLoop(keys, items, modules) ==
    IF keys = <<>> THEN modules
    ELSE ItemLoop(Tail(keys), Tail(items),
                  IF Head(items).t = "dict"
                  THEN Append(modules, ModuleInfo(Head(keys), module_version(Head(items))))
                  ELSE modules)

\* for item in yaml_data
RECURSIVE DataLoop(_, _)
DataLoop(yaml_data, modules) ==
    IF yaml_data = <<>> THEN modules
    ELSE DataLoop(Tail(yaml_data),
                  IF Head(yaml_data).t = "dict"
                  THEN ItemLoop(Head(yaml_data).keys, Head(yaml_data).items, modules)
                  ELSE modules)

\* parse_yaml_modules(job_file): the modules, or the exception that leaves it
parse_yaml_modules(f) ==
    IF f.open # "ok" THEN Modules(<<>>)            \* IOError, UnicodeDecodeError: pass
    ELSE IF f.load.kind = "raised"
    THEN IF f.load.exc = "YAMLError" THEN Modules(<<>>) ELSE f.load
    ELSE IF f.load.data.t = "list" THEN Modules(DataLoop(f.load.data.items, <<>>))
    ELSE Modules(<<>>)

\* ---- job files

ModuleName == [mod |-> <<"m", "o", "d">>, other |-> <<"o", "t", "h", "e", "r">>]

OneKey(k, v) == JDict(<<k>>, <<v>>)

VersionValues == {JStr(<<"1", ".", "0">>), JInt(2), JNull, JStr(<<>>)}

\* what stands after "module_name:" in an entry
ModuleConfigs ==
    {OneKey(TextVersion, v) : v \in VersionValues}
        \cup {OneKey(TextVer, JStr(<<"3">>)),
              JDict(<<TextVer, TextVersion>>, <<JStr(<<"3">>), JStr(<<"1", ".", "0">>)>>),
              JDict(<<>>, <<>>), JNull, JInt(5)}

\* the items of the top-level list
YamlItems ==
    {OneKey(n, c) : n \in Range(ModuleName), c \in ModuleConfigs}
        \cup {JDict(<<ModuleName.mod, ModuleName.other>>,
                    <<OneKey(TextVersion, JInt(2)), JDict(<<>>, <<>>)>>),
              JStr(ModuleName.mod)}

\* yaml.safe_load(yaml_content): a document, YAMLError for a malformed one,
\* ValueError for a timestamp scalar that is no date (version: 2001-02-30)
SafeLoads ==
    {Loaded(JList(items)) : items \in UNION {[1..n -> YamlItems] : n \in 0..MaxEntries}}
        \cup {Loaded(JNull), Loaded(OneKey(ModuleName.mod, OneKey(TextVersion, JInt(2)))),
              Raised("YAMLError"), Raised("ValueError")}

YamlFiles ==
    {YamlFile("ok", l) : l \in SafeLoads}
        \cup {YamlFile(e, Loaded(JNull)) : e \in {"IOError", "UnicodeDecodeError"}}

YamlIdle ==
    /\ yaml_file = None
    /\ yaml_result = None
    /\ yaml_pc = "idle"

YamlInit ==
    /\ yaml_file \in YamlFiles
    /\ yaml_result = None
    /\ yaml_pc = "call"

\* modules = JobConfigParser.parse_yaml_modules(job_file)
ParseYamlModules ==
    /\ yaml_pc = "call"
    /\ yaml_result' = parse_yaml_modules(yaml_file)
    /\ yaml_pc' = IF yaml_result'.kind = "raised" THEN "raised" ELSE "returned"
    /\ UNCHANGED <<yaml_file, parseVars, matchVars, runVars, batchVars, envVars,
                   testerVars, builderVars>>

(***************************************************************************)
(* test_copy_utils.py: module specifications, test files, copying          *)
(***************************************************************************)

MaxSpecs == 2

\* a directory: whether it exists and, by name, what each of its files holds
Dir(exists, files) == [exists |-> exists, files |-> files]

File(name, content) == [name |-> name, content |-> content]

Names(files) == {f.name : f \in files}

\* one file operation, or one run of the tests
Step(op, path, src) == [op |-> op, path |-> path, src |-> src]

Slash == <<"/">>

\* a ValueError, or (module_name, pattern) with pattern None when has is FALSE
ModulePattern(module_name, has, pattern) ==
    [kind |-> "pattern", module_name |-> module_name, has |-> has, pattern |-> pattern]

\* s.split('/')[-1]
RECURSIVE LastPart(_)
LastPart(s) ==
    IF "/" \notin Range(s) THEN s ELSE LastPart(Tail(s))

\* s.split('/', 1) of an s that holds a '/'
RECURSIVE SplitOnce(_, _)
SplitOnce(head, s) ==
    IF Head(s) = "/" THEN <<head, Tail(s)>> ELSE SplitOnce(Append(head, Head(s)), Tail(s))

\* ModulePatternParser.parse_module_pattern(module_spec)
parse_module_pattern(spec) ==
    LET module_spec == Strip(spec)
    IN  IF module_spec = <<>> THEN Raised("ValueError")
        ELSE IF \/ StartsWith(module_spec, <<".", "/">>)
                \/ StartsWith(module_spec, Slash)
                \/ "." \in Range(LastPart(module_spec))
        THEN Raised("ValueError")
        ELSE IF "/" \notin Range(module_spec) THEN ModulePattern(module_spec, FALSE, <<>>)
        ELSE LET parts == SplitOnce(<<>>, module_spec)
                 module_name == Strip(parts[1])
                 pattern == Strip(parts[2])
             IN  IF module_name = <<>> THEN Raised("ValueError")
                 ELSE ModulePattern(module_name, TRUE, pattern)

\* fnmatch.fnmatch(filename, pattern) on a POSIX system, for patterns of
\* literal characters, "*" and "?"
RECURSIVE fnmatch(_, _)
fnmatch(filename, pattern) ==
    IF pattern = <<>> THEN filename = <<>>
    ELSE IF Head(pattern) = "*"
    THEN \/ fnmatch(filename, Tail(pattern))
         \/ filename # <<>> /\ fnmatch(Tail(filename), pattern)
    ELSE /\ filename # <<>>
         /\ Head(pattern) = "?" \/ Head(pattern) = Head(filename)
         /\ fnmatch(Tail(filename), Tail(pattern))

DotJob == <<".", "j", "o", "b">>

\* the modules of the tree: name, whether it has a test directory, the
\* regular files of that directory, and those of them that cannot be read
Module(name, has_test, files, unreadable) ==
    [name |-> name, has_test |-> has_test, files |-> files, unreadable |-> unreadable]

\* ModuleManager.get_all_modules_with_tests(): the names, in iterdir() order
get_all_modules_with_tests(t) ==
    IF ~t.exists THEN {}
    ELSE {m.name : m \in {x \in t.modules :
                              x.has_test /\ \E f \in x.files : EndsWith(f, DotJob)}}

\* TestFileManager.find_test_files(module_dir, module_name, pattern)
find_test_files(m, p) ==
    IF ~m.has_test THEN <<>>
    ELSE sorted({f \in m.files :
                    /\ EndsWith(f, DotJob)
                    /\ (p.has /\ p.pattern # <<>>) => fnmatch(f, p.pattern)})

\* TestFileManager.generate_target_filename(module_name, original_filename)
generate_target_filename(module_name, original_filename) ==
    module_name \o <<"_", "_">> \o original_filename

SourcePath(module_name, filename) ==
    module_name \o <<"/", "t", "e", "s", "t", "/">> \o filename

\* the state copy_module_tests works on
CopyState(dir, res, done) == [tests |-> dir, results |-> res, steps |-> done]

\* TestFileCopier.copy_test_file, and the counting of its result
copy_test_file(m, filename, dry_run, st) ==
    LET target_filename == generate_target_filename(m.name, filename)
        source_path == SourcePath(m.name, filename)
        copy_ok == dry_run \/ (filename \notin m.unreadable /\ st.tests.exists)
        copied == ~dry_run /\ copy_ok
    IN  CopyState(
            IF copied
            THEN Dir(TRUE, {f \in st.tests.files : f.name # target_filename}
                               \cup {File(target_filename, source_path)})
            ELSE st.tests,
            IF copy_ok
            THEN [st.results EXCEPT !.copied_files = @ + 1]
            ELSE [st.results EXCEPT !.failed_copies = @ + 1],
            IF copied THEN Append(st.steps, Step("copy", target_filename, source_path))
            ELSE st.steps)

\* for test_file in test_files
RECURSIVE CopyLoop(_, _, _, _)
CopyLoop(m, test_files, dry_run, st) ==
    IF test_files = <<>> THEN st
    ELSE CopyLoop(m, Tail(test_files), dry_run,
                  copy_test_file(m, Head(test_files), dry_run, st))

NotFound(st, name) ==
    [st EXCEPT !.results.modules_not_found = Append(@, name)]

\* TestCopier._process_module_spec
_process_module_spec(t, module_spec, dry_run, st) ==
    LET p == parse_module_pattern(module_spec)
    IN  IF p.kind = "raised" THEN NotFound(st, module_spec)
        ELSE IF ~\E m \in t.modules : m.name = p.module_name
        THEN NotFound(st, p.module_name)
        ELSE LET m == CHOOSE x \in t.modules : x.name = p.module_name
                 test_files == find_test_files(m, p)
             IN  IF test_files = <<>> THEN st
                 ELSE CopyLoop(m, test_files, dry_run,
                               [st EXCEPT !.results.processed_modules = @ + 1])

\* for module_spec in module_specs
RECURSIVE SpecLoop(_, _, _, _)
SpecLoop(t, specs, dry_run, st) ==
    IF specs = <<>> THEN st
    ELSE SpecLoop(t, Tail(specs), dry_run,
                  _process_module_spec(t, Head(specs), dry_run, st))

NoResults == [kind |-> "empty"]

NewResults ==
    [kind |-> "results", processed_modules |-> 0, copied_files |-> 0,
     failed_copies |-> 0, modules_not_found |-> <<>>]

TestsPath == <<"t", "e", "s", "t", "s">>
GrunPath  == <<"g", "r", "u", "n">>

\* TestCopier.copy_module_tests(module_specs, tests_dir, dry_run, verbose)
copy_module_tests(t, specs, dir, dry_run, done) ==
    IF ~t.exists THEN CopyState(dir, NoResults, done)
    ELSE LET mkdir == ~dir.exists /\ ~dry_run
         IN  SpecLoop(t, specs, dry_run,
                      CopyState(IF mkdir THEN Dir(TRUE, {}) ELSE dir, NewResults,
                                IF mkdir THEN Append(done, Step("mkdir", TestsPath, <<>>))
                                ELSE done))

(***************************************************************************)
(* gd_tester.py: the test manager                                          *)
(***************************************************************************)

\* a directory manager that removes although it is a dry run
clean_directory_always(dry_run, t, g, done) ==
    [count |-> 2, tests |-> Dir(TRUE, {}), grun |-> Dir(TRUE, {}),
     steps |-> done \o <<Step("rmtree", TestsPath, <<>>), Step("rmtree", GrunPath, <<>>)>>]

\* TestDirectoryManager.clean_directory(dry_run, verbose)
clean_directory(dry_run, t, g, done) ==
    IF dry_run THEN [count |-> 2, tests |-> t, grun |-> g, steps |-> done]
    ELSE LET rm_tests == IF t.exists THEN <<Step("rmtree", TestsPath, <<>>)>> ELSE <<>>
             rm_grun == IF g.exists THEN <<Step("rmtree", GrunPath, <<>>)>> ELSE <<>>
         IN  [count |-> Len(rm_tests) + Len(rm_grun),
              tests |-> Dir(TRUE, {}), grun |-> Dir(TRUE, {}),
              steps |-> done \o rm_tests \o rm_grun
                            \o <<Step("mkdir", TestsPath, <<>>), Step("mkdir", GrunPath, <<>>)>>]

\* TestCopyMode._handle_copy_results: TRUE when it calls sys.exit(1)
_handle_copy_results(res, a) ==
    \/ res.failed_copies > 0
    \/ res.copied_files = 0 /\ ~a.clean

TesterIdle ==
    /\ args = None
    /\ tree = None
    /\ tests = None
    /\ grun = None
    /\ module_specs = <<>>
    /\ copy_results = None
    /\ steps = <<>>
    /\ tester_pc = "idle"

\* ---- command lines and directory trees

ModName ==
    [te |-> <<"t", "e", "s", "t", "e", "x", "p", "e", "c", "t", "e", "d">>,
     a |-> <<"a">>, a__b |-> <<"a", "_", "_", "b">>, lib |-> <<"l", "i", "b">>]

JobName ==
    [test_a |-> <<"t", "e", "s", "t", "_", "a", ".", "j", "o", "b">>,
     x100 |-> <<"x", "1", ".", "0", ".", "0", ".", "j", "o", "b">>,
     my_attr |-> <<"m", "y", "_", "a", "t", "t", "r", ".", "j", "o", "b">>,
     notes |-> <<"n", "o", "t", "e", "s", ".", "t", "x", "t">>,
     b__c |-> <<"b", "_", "_", "c", ".", "j", "o", "b">>,
     c |-> <<"c", ".", "j", "o", "b">>,
     old |-> <<"o", "l", "d", ".", "j", "o", "b">>,
     out |-> <<"o", "u", "t", ".", "l", "o", "g">>]

\* the -m arguments: the documented examples, bare names, a missing module
SpecMenu ==
    {ModName.te,
     ModName.te \o Slash \o <<"t", "e", "s", "t", "*">>,
     ModName.te \o Slash \o <<"*", "1", ".", "0", ".", "0", ".", "j", "o", "b">>,
     ModName.te \o Slash \o <<"*", "a", "t", "t", "r", "*">>,
     ModName.a, ModName.a__b, <<"n", "o", "m", "o", "d">>}

TreeModules(unreadable) ==
    {Module(ModName.te, TRUE,
            {JobName.test_a, JobName.x100, JobName.my_attr, JobName.notes}, unreadable),
     Module(ModName.a, TRUE, {JobName.b__c}, {}),
     Module(ModName.a__b, TRUE, {JobName.c}, {}),
     Module(ModName.lib, FALSE, {}, {})}

\* the module directory: complete, with a file that cannot be read, without
\* modules, or missing
Trees ==
    {[exists |-> TRUE, modules |-> TreeModules({})],
     [exists |-> TRUE, modules |-> TreeModules({JobName.my_attr})],
     [exists |-> TRUE, modules |-> {}],
     [exists |-> FALSE, modules |-> {}]}

\* the tests and grun directories before the run: missing, or left by an
\* earlier run
OldDirs ==
    {[tests |-> Dir(FALSE, {}), grun |-> Dir(FALSE, {})],
     [tests |-> Dir(TRUE, {}), grun |-> Dir(FALSE, {})],
     [tests |-> Dir(TRUE, {File(JobName.old, JobName.old)}),
      grun |-> Dir(TRUE, {File(JobName.out, JobName.out)})]}

\* args.modules is None (here <<>>) or a non-empty list: nargs='+'
ArgLists == UNION {[1..n -> SpecMenu] : n \in 0..MaxSpecs}

TesterInit ==
    /\ args \in [modules : ArgLists, clean : BOOLEAN, dry_run : BOOLEAN, geo_valid : BOOLEAN]
    /\ tree \in Trees
    /\ \E old \in OldDirs : tests = old.tests /\ grun = old.grun
    /\ module_specs = <<>>
    /\ copy_results = None
    /\ steps = <<>>
    /\ tester_pc = "start"

\* the lists that hold every element of a set once
Orders(S) ==
    {s \in [1..Cardinality(S) -> S] : \A i, j \in DOMAIN s : s[i] = s[j] => i = j}

\* copy_tests_mode: module_specs = self._get_module_specs(args); without one
\* it returns
GetModuleSpecs ==
    /\ tester_pc = "start"
    /\ IF args.modules # <<>>
       THEN module_specs' = args.modules
       ELSE module_specs' \in Orders(get_all_modules_with_tests(tree))
    /\ tester_pc' = IF module_specs' = <<>> THEN "copied" ELSE "specs"
    /\ UNCHANGED <<args, tree, tests, grun, copy_results, steps, parseVars, matchVars,
                   runVars, batchVars, envVars, yamlVars, builderVars>>

\* copy_tests_mode: self._handle_clean_operation(args), and sys.exit(1) under
\* --clean
HandleClean ==
    /\ tester_pc = "specs"
    /\ LET c == clean_directory(args.dry_run, tests, grun, steps)
       IN  /\ tests' = c.tests
           /\ grun' = c.grun
           /\ steps' = c.steps
    /\ tester_pc' = IF args.clean THEN "exited" ELSE "cleaned"
    /\ UNCHANGED <<args, tree, module_specs, copy_results, parseVars, matchVars,
                   runVars, batchVars, envVars, yamlVars, builderVars>>

\* copy_tests_mode: self._handle_copy_operation(module_specs, args)
HandleCopy ==
    /\ tester_pc = "cleaned"
    /\ LET st == copy_module_tests(tree, module_specs, tests, args.dry_run, steps)
       IN  /\ tests' = st.tests
           /\ steps' = st.steps
           /\ copy_results' = st.results
           /\ tester_pc' = IF st.results.kind = "empty" THEN "copied"
                           ELSE IF _handle_copy_results(st.results, args) THEN "exited"
                           ELSE "copied"
    /\ UNCHANGED <<args, tree, grun, module_specs, parseVars, matchVars,
                   runVars, batchVars, envVars, yamlVars, builderVars>>

\* TestManager.run after copy_tests_mode: run_tests_mode(args) unless --dry-run.
\* The run hands the job files of the tests directory to run_test; it ends
\* with exit status 1 when there is none or one of them fails.
RunTests ==
    /\ tester_pc = "copied"
    /\ IF args.dry_run THEN tester_pc' = "done" /\ UNCHANGED steps
       ELSE IF ~args.geo_valid THEN tester_pc' = "exited" /\ UNCHANGED steps
       ELSE LET jobs == find_job_files(Names(tests.files))
            IN  /\ steps' = steps \o [i \in 1..Len(jobs) |-> Step("run", jobs[i], <<>>)]
                /\ IF jobs = <<>> THEN tester_pc' = "exited"
                   ELSE tester_pc' \in {"done", "exited"}
    /\ UNCHANGED <<args, tree, tests, grun, module_specs, copy_results, parseVars,
                   matchVars, runVars, batchVars, envVars, yamlVars, builderVars>>

(***************************************************************************)
(* gd_builder.py: versions of the modules, build and install               *)
(***************************************************************************)

TextQVersion == <<"\"", "v", "e", "r", "s", "i", "o", "n", "\"">>

RECURSIVE SkipReSpace(_, _)
SkipReSpace(s, i) == IF i <= Len(s) /\ IsReSpace(s[i]) THEN SkipReSpace(s, i + 1) ELSE i

\* the position of the next '"' at or after i, or 0
RECURSIVE NextQuote(_, _)
NextQuote(s, i) ==
    IF i > Len(s) THEN 0 ELSE IF s[i] = "\"" THEN i ELSE NextQuote(s, i + 1)

\* r'"version"\s*:\s*"([^"]*)"' matched at position i: the group, if it matches
VersionMatchAt(s, i) ==
    LET colon == SkipReSpace(s, i + Len(TextQVersion))
        quote == SkipReSpace(s, colon + 1)
        close == NextQuote(s, quote + 1)
    IN  IF /\ StartsWithAt(s, TextQVersion, i)
           /\ colon <= Len(s) /\ s[colon] = ":"
           /\ quote <= Len(s) /\ s[quote] = "\""
           /\ close # 0
        THEN [found |-> TRUE, version |-> SubSeq(s, quote + 1, close - 1)]
        ELSE [found |-> FALSE, version |-> <<>>]

\* extract_version_from_content(content): the group of the leftmost match,
\* found FALSE for None
extract_version_from_content(content) ==
    LET hits == {i \in 1..Len(content) : VersionMatchAt(content, i).found}
    IN  IF hits = {} THEN [found |-> FALSE, version |-> <<>>]
        ELSE VersionMatchAt(content, CHOOSE i \in hits : \A j \in hits : i <= j)

\* fix_json_braces(content)
fix_json_braces(content) ==
    LET c == Strip(content)
        opens == StartsWith(c, <<"{">>)
        closes == EndsWith(c, <<"}">>)
    IN  IF ~opens /\ ~closes THEN <<"{">> \o c \o <<"}">>
        ELSE IF ~opens /\ closes THEN <<"{">> \o c
        ELSE IF opens /\ ~closes THEN c \o <<"}">>
        ELSE c

TextParseError == <<"P", "a", "r", "s", "e", " ", "E", "r", "r", "o", "r">>
TextError      == <<"E", "r", "r", "o", "r">>
TextNoJsonFile == <<"N", "o", " ", "J", "S", "O", "N", " ", "f", "i", "l", "e">>
TextUnknownV   == <<"U", "n", "k", "n", "o", "w", "n">>

\* a module's JSON file: whether it exists, can be read, and what it holds
JsonFile(exists, readable, content) ==
    [exists |-> exists, readable |-> readable, content |-> content]

\* parse_version_from_json_file(json_file_path): the value it returns
parse_version_from_json_file(f) ==
    IF ~f.readable THEN JStr(TextError)
    ELSE LET version == extract_version_from_content(f.content)
             loaded == json_loads(fix_json_braces(f.content))
         IN  IF version.found /\ version.version # <<>> THEN JStr(version.version)
             ELSE IF ~loaded.ok THEN JStr(TextParseError)      \* JSONDecodeError
             ELSE IF loaded.val.t # "dict" THEN JStr(TextError)
             ELSE IF DictHas(loaded.val, TextVersion) THEN DictGet(loaded.val, TextVersion)
             ELSE JStr(TextUnknownV)

\* process_single_module(module_dir, module_name)
process_single_module(m) ==
    IF m.json.exists THEN parse_version_from_json_file(m.json) ELSE JStr(TextNoJsonFile)

\* get_module_versions(modules_dir, None)
get_module_versions(dirs) == [n \in DOMAIN dirs |-> process_single_module(dirs[n])]

\* ["Parse Error", "Error", "No JSON file"]
SkippedVersions == {JStr(TextParseError), JStr(TextError), JStr(TextNoJsonFile)}

\* a command handed to subprocess.run, and whether run_command reports success
Command(module_name, program, arg, ok) ==
    [module |-> module_name, program |-> program, arg |-> arg, ok |-> ok]

\* ---- module directories

DirName == [alpha |-> <<"a", "l", "p", "h", "a">>, beta |-> <<"b", "e", "t", "a">>]

JsonText ==
    [version |-> <<"{", "\"", "v", "e", "r", "s", "i", "o", "n", "\"", ":", " ", "\"", "1", ".", "2", "\"", "}">>,
     empty_version |-> <<"{", "\"", "v", "e", "r", "s", "i", "o", "n", "\"", ":", " ", "\"", "\"", "}">>,
     no_version |-> <<"{", "\"", "n", "a", "m", "e", "\"", ":", " ", "\"", "m", "\"", "}">>,
     no_braces |-> <<"\"", "v", "e", "r", "s", "i", "o", "n", "\"", " ", ":", " ", "\"", "2", ".", "0", "\"">>,
     number |-> <<"{", "\"", "v", "e", "r", "s", "i", "o", "n", "\"", ":", " ", "5", "}">>,
     garbage |-> <<"n", "o", "t", " ", "j", "s", "o", "n">>]

JsonFiles ==
    {JsonFile(TRUE, TRUE, JsonText[k]) : k \in DOMAIN JsonText}
        \cup {JsonFile(FALSE, FALSE, <<>>), JsonFile(TRUE, FALSE, <<>>)}

\* a module directory: its JSON file, whether build-<module>.sh is a file,
\* whether mybuild exists once the build script has run
ModuleDirs == [json : JsonFiles, script : BOOLEAN, mybuild : BOOLEAN]

BuilderInit ==
    /\ \E names \in SUBSET Range(DirName) :
          names # {} /\ module_dirs \in [names -> ModuleDirs]
    /\ module_versions = <<>>
    /\ build_queue = <<>>
    /\ commands = <<>>
    /\ build_results = <<>>
    /\ build_pc = "start"

\* build_modules: module_versions = get_module_versions(...), and the list the
\* loop goes through
GetModuleVersions ==
    /\ build_pc = "start"
    /\ module_versions' = get_module_versions(module_dirs)
    /\ build_queue' = sorted(DOMAIN module_dirs)
    /\ build_pc' = "loop"
    /\ UNCHANGED <<module_dirs, commands, build_results, parseVars, matchVars, runVars,
                   batchVars, envVars, yamlVars, testerVars>>

\* the end of the loop's body for the module at the head of the list
Record(built) ==
    /\ build_results' = (Head(build_queue) :> built) @@ build_results
    /\ build_queue' = Tail(build_queue)
    /\ build_pc' = IF Tail(build_queue) = <<>> THEN "done" ELSE "loop"

BuilderFrame ==
    UNCHANGED <<module_dirs, module_versions, parseVars, matchVars, runVars,
                batchVars, envVars, yamlVars, testerVars>>

\* build_modules: a module whose version is in the skip list
SkipModule ==
    /\ build_pc = "loop"
    /\ module_versions[Head(build_queue)] \in SkippedVersions
    /\ Record(FALSE)
    /\ UNCHANGED commands
    /\ BuilderFrame

\* build_modules: build_single_module up to the end of run_build_script.
\* run_command joins the command's parts before it guards subprocess.run: a
\* version that is no str raises TypeError there, and nothing catches it.
RunBuildScript ==
    /\ build_pc = "loop"
    /\ module_versions[Head(build_queue)] \notin SkippedVersions
    /\ LET module_name == Head(build_queue)
           version == module_versions[module_name]
       IN  IF ~module_dirs[module_name].script
           THEN Record(FALSE) /\ UNCHANGED commands
           ELSE IF version.t # "str"
           THEN /\ build_pc' = "raised"
                /\ UNCHANGED <<build_queue, build_results, commands>>
           ELSE \E build_success \in BOOLEAN :
                   /\ commands' = Append(commands, Command(module_name, "bash", version.s,
                                                           build_success))
                   /\ IF build_success
                      THEN build_pc' = "built" /\ UNCHANGED <<build_queue, build_results>>
                      ELSE Record(FALSE)
    /\ BuilderFrame

\* build_single_module: run_ninja_install(module_dir) and the return
RunNinjaInstall ==
    /\ build_pc = "built"
    /\ IF ~module_dirs[Head(build_queue)].mybuild
       THEN Record(FALSE) /\ UNCHANGED commands
       ELSE \E install_success \in BOOLEAN :
               /\ commands' = Append(commands, Command(Head(build_queue), "ninja",
                                                       <<"i", "n", "s", "t", "a", "l", "l">>,
                                                       install_success))
               /\ Record(install_success)
    /\ BuilderFrame

BuilderIdle ==
    /\ module_dirs = <<>>
    /\ module_versions = <<>>
    /\ build_queue = <<>>
    /\ commands = <<>>
    /\ build_results = <<>>
    /\ build_pc = "idle"

NextMatch == MatchPatterns

InitMatch ==
    MatchInit /\ ParseIdle /\ RunIdle /\ BatchIdle /\ EnvIdle
        /\ YamlIdle /\ TesterIdle /\ BuilderIdle

SpecMatch == InitMatch /\ [][NextMatch]_vars

NextParse == Normalize \/ FromString \/ ParseJobConfig

InitParse ==
    ParseInit /\ MatchIdle /\ RunIdle /\ BatchIdle /\ EnvIdle
        /\ YamlIdle /\ TesterIdle /\ BuilderIdle

SpecParse == InitParse /\ [][NextParse]_vars

Next ==
    \/ ParseConfig
    \/ CheckScripts
    \/ Execute
    \/ ReturnExecuted
    \/ ReturnTimedOut
    \/ ReturnErrored

Init ==
    RunInit /\ ParseIdle /\ MatchIdle /\ BatchIdle /\ EnvIdle
        /\ YamlIdle /\ TesterIdle /\ BuilderIdle

Spec == Init /\ [][Next]_vars

NextBatch ==
    \/ FindJobFiles
    \/ CallRunTest
    \/ ParseConfig
    \/ CheckScripts
    \/ Execute
    \/ ReturnExecuted
    \/ ReturnTimedOut
    \/ ReturnErrored
    \/ AppendResult
    \/ PropagateException

InitBatch ==
    BatchInit /\ ParseIdle /\ MatchIdle /\ EnvIdle
        /\ YamlIdle /\ TesterIdle /\ BuilderIdle

SpecBatch == InitBatch /\ [][NextBatch]_vars

\* The interpreter goes on while a step is possible. ParseConfig is possible
\* exactly at START and every step of it leaves START, so weak fairness of it
\* is that run_test is not at START forever.
FairSpecBatch ==
    /\ SpecBatch
    /\ []<>(run_pc # "START")
    /\ WF_vars(FindJobFiles \/ CallRunTest \/ AppendResult \/ PropagateException)
    /\ WF_vars(CheckScripts \/ Execute)
    /\ WF_vars(ReturnExecuted \/ ReturnTimedOut \/ ReturnErrored)

NextEnv == SetupEnvironment \/ MutateJobEnv

InitEnv ==
    EnvInit /\ ParseIdle /\ MatchIdle /\ RunIdle /\ BatchIdle
        /\ YamlIdle /\ TesterIdle /\ BuilderIdle

SpecEnv == InitEnv /\ [][NextEnv]_vars

NextYaml == ParseYamlModules

InitYaml ==
    YamlInit /\ ParseIdle /\ MatchIdle /\ RunIdle /\ BatchIdle /\ EnvIdle /\ TesterIdle
        /\ BuilderIdle

SpecYaml == InitYaml /\ [][NextYaml]_vars

NextTester == GetModuleSpecs \/ HandleClean \/ HandleCopy \/ RunTests

InitTester ==
    TesterInit /\ ParseIdle /\ MatchIdle /\ RunIdle /\ BatchIdle /\ EnvIdle /\ YamlIdle
        /\ BuilderIdle

SpecTester == InitTester /\ [][NextTester]_vars

NextBuilder == GetModuleVersions \/ SkipModule \/ RunBuildScript \/ RunNinjaInstall

InitBuilder ==
    BuilderInit /\ ParseIdle /\ MatchIdle /\ RunIdle /\ BatchIdle /\ EnvIdle /\ YamlIdle
        /\ TesterIdle

SpecBuilder == InitBuilder /\ [][NextBuilder]_vars

(***************************************************************************)
(* Properties of the directive parser                                      *)
(***************************************************************************)

Parsed == parse_pc \in {"parsed", "done"}

\* the value from_string reads its fields from: the strict parse, else the
\* parse of the normalized text
ParsedValue(cfg) ==
    LET strict == json_loads(cfg)
    IN  IF strict.ok THEN strict ELSE json_loads(_normalize_config_string(cfg))

\* the directive is no configuration: no JSON even after normalization, a
\* JSON value that is no object, or an object whose timeout is no number
Malformed(cfg) ==
    LET v == ParsedValue(cfg)
    IN  \/ ~v.ok
        \/ v.val.t # "dict"
        \/ DictHas(v.val, TextTimeout) /\ ~PyInt(DictGet(v.val, TextTimeout)).ok

\* C2: from_string never raises and returns the default config for every
\* malformed directive; parse_job_config returns a JobConfig for every job file.
C2_NeverRaises ==
    /\ Parsed =>
          /\ from_result.kind = "JobConfig"
          /\ Malformed(config_str) => from_result = DefaultJobConfig
    /\ parse_pc = "done" => job_config.kind = "JobConfig"

\* the fields C3 states for a strict-JSON value v (absent fields of a value
\* that is no object included), compared with the config r
FieldsAsStated(v, r) ==
    LET has(k) == v.t = "dict" /\ DictHas(v, k)
        pass == DictGet(v, TextPass)
        timeout == DictGet(v, TextTimeout)
        log == DictGet(v, TextLog)
    IN  /\ r.pass_expected =
              (IF ~has(TextPass) THEN TRUE
               ELSE IF pass.t = "str" THEN Lower(pass.s) \in {TextYes, LitTrue}
               ELSE PyBool(pass))
        /\ IF ~has(TextTimeout) THEN r.timeout = DefaultTimeout
           ELSE PyInt(timeout).ok => r.timeout = PyInt(timeout).n
        /\ IF ~has(TextLog) THEN r.log_patterns = <<>>
           ELSE IF log.t = "list"
           THEN r.log_patterns = [i \in 1..Len(log.items) |-> JStr(PyStr(log.items[i]))]
           ELSE IF log.t = "str"
           THEN r.log_patterns =
                    (IF json_loads(log.s).ok /\ json_loads(log.s).val.t = "list"
                     THEN json_loads(log.s).val.items
                     ELSE <<JStr(log.s)>>)
           ELSE TRUE

\* C3: for every directive that is valid strict JSON, from_string yields a
\* JobConfig with exactly the parsed fields.
C3_StrictJsonFields ==
    (Parsed /\ json_loads(config_str).ok) =>
        /\ from_result.kind = "JobConfig"
        /\ FieldsAsStated(json_loads(config_str).val, from_result)

Unquote(text) == SubSeq(text, 2, Len(text) - 1)

BareValues == {Given(TextYes), Given(TextNo), Given(TextTrue), Given(TextFalse)}

\* the directive is written with bare keys, its pass (if any) is a bare
\* yes/no/True/False and its timeout (if any) a number; its log (if any) holds
\* no bracket inside an array element (the case of C5) and is no string with
\* "word:" text
JsStyleDirective ==
    /\ written.style \in {"js", "compact", "logfirst"}
    /\ written.pass \in BareValues \cup {Absent}
    /\ written.timeout \in {Absent, Given(<<"5">>)}
    /\ ~Contains(written.log.text, Unquote(Element.class))
    /\ written.log # Given(LogText.key_like)
    /\ written.pass.has \/ written.timeout.has \/ written.log.has

\* the strict-JSON way to write a bare value
StrictValue(value) ==
    CASE value = Given(TextYes)   -> Given(Quoted(TextYes))
      [] value = Given(TextNo)    -> Given(Quoted(TextNo))
      [] value = Given(TextTrue)  -> Given(LitTrue)
      [] value = Given(TextFalse) -> Given(LitFalse)
      [] OTHER -> value

StringElements == LogElementMenu \ {Element.number}

\* C5: for every directive whose log is an array of string patterns, the
\* normalized text still holds the array as written, and the parsed
\* log_patterns are the patterns as written.
C5_ArraysVerbatim ==
    \A elems \in SeqsOfLen(StringElements, 0, MaxLogPatterns) :
        (written.style # "other" /\ written.log = Given(ArrayText(elems))) =>
            /\ parse_pc # "start" => Contains(normalized.text, ArrayText(elems))
            /\ (Parsed /\ ~Malformed(DirectiveText("json", StrictValue(written.pass),
                                                   written.timeout, written.log))) =>
                  /\ from_result.kind = "JobConfig"
                  /\ from_result.log_patterns =
                         [i \in 1..Len(elems) |-> JStr(Unquote(elems[i]))]

\* C6: every element of log_patterns is a string, for every directive
\* from_string accepts.
C6_PatternsAreStrings ==
    /\ (Parsed /\ from_result.kind = "JobConfig") =>
          \A i \in DOMAIN from_result.log_patterns : from_result.log_patterns[i].t = "str"
    /\ (parse_pc = "done" /\ job_config.kind = "JobConfig") =>
          \A i \in DOMAIN job_config.log_patterns : job_config.log_patterns[i].t = "str"

(***************************************************************************)
(* Properties of the matcher                                               *)
(***************************************************************************)

Returned == match_pc = "returned" /\ match_result.kind = "LogMatchResult"

\* the trimmed lines of the text the patterns are searched in
StrippedLog(out, err) ==
    LET combined == _filter_job_setup_content(out) \o _filter_job_setup_content(err)
    IN  [i \in 1..Len(combined) |-> Strip(combined[i])]

SearchedLines == StrippedLog(stdout, stderr)

\* C7: all_matched is true iff unmatched_patterns is empty and patterns is
\* non-empty; has_patterns is true iff patterns is non-empty; with no patterns
\* both are false.
C7_AllMatched ==
    Returned =>
        /\ match_result.all_matched =
               (match_result.unmatched_patterns = <<>> /\ match_result.patterns # <<>>)
        /\ match_result.has_patterns = (match_result.patterns # <<>>)
        /\ match_result.patterns = <<>> =>
               (~match_result.has_patterns /\ ~match_result.all_matched)

C7_Witness ==
    /\ Returned
    /\ match_result.patterns = <<>>
    /\ match_result.unmatched_patterns = <<>>
    /\ match_result.all_matched = FALSE

\* C8: result.patterns is the input sequence; every input pattern is in exactly
\* one of matched_patterns / unmatched_patterns; matched_patterns is the
\* subsequence of the input patterns that at least one searched line matches,
\* unmatched_patterns the subsequence of the others, both in input order.
SomeLineMatches(p) == \E i \in DOMAIN SearchedLines : LineMatches(p, SearchedLines[i])

C8_Partition ==
    Returned =>
        /\ match_result.patterns = patterns
        /\ \A i \in DOMAIN patterns :
               (patterns[i] \in Range(match_result.matched_patterns))
                   # (patterns[i] \in Range(match_result.unmatched_patterns))
        /\ match_result.matched_patterns = SelectSeq(patterns, SomeLineMatches)
        /\ match_result.unmatched_patterns =
               SelectSeq(patterns, LAMBDA p : ~SomeLineMatches(p))

C8_Witness ==
    /\ Returned
    /\ Len(patterns) = 2
    /\ Len(match_result.matched_patterns) = 1
    /\ Len(match_result.unmatched_patterns) = 1
    /\ match_result.matched_patterns[1] = patterns[2]

\* the text after "^" is plain: no character of it is special in a regex
PlainRegex(p) ==
    /\ _is_regex_pattern(p)
    /\ \A i \in 2..Len(p.s) : p.s[i] \notin {"^", ".", "("}

\* C10 as stated: a pattern "^text" matches every line that contains text
\* anywhere, and its recorded lines are all those lines.
C10_MatchesAnywhere ==
    Returned =>
        \A i \in DOMAIN patterns :
            PlainRegex(patterns[i]) =>
                match_result.match_details[patterns[i]] =
                    SelectSeq(SearchedLines,
                              LAMBDA l : l # <<>> /\ Contains(l, Tail(patterns[i].s)))

\* C10 amended: a pattern "^text" is searched as a regular expression whose "^"
\* anchors at the start of the trimmed line: its recorded lines are exactly the
\* non-empty trimmed lines that start with text, and it is matched iff there is
\* one.
C10_MatchesAtStart ==
    Returned =>
        \A i \in DOMAIN patterns :
            PlainRegex(patterns[i]) =>
                /\ match_result.match_details[patterns[i]] =
                       SelectSeq(SearchedLines,
                                 LAMBDA l : l # <<>> /\ StartsWith(l, Tail(patterns[i].s)))
                /\ (patterns[i] \in Range(match_result.matched_patterns))
                       <=> \E k \in DOMAIN SearchedLines :
                               StartsWith(SearchedLines[k], Tail(patterns[i].s))

\* "^ERROR" against a line that starts with ERROR once trimmed and a line that
\* holds ERROR further on: only the first is recorded
C10_Witness ==
    /\ Returned
    /\ JStr(Pattern.regex_error) \in Range(patterns)
    /\ stdout = <<Line.error_indented, Line.error_mid>>
    /\ match_result.match_details[JStr(Pattern.regex_error)] = <<Pattern.error>>

\* a pattern that is searched as a substring
SubstringPattern(p) == HasStartswith(p) /\ ~_is_regex_pattern(p)

TrimmedLines(text) == [i \in 1..Len(text) |-> Strip(text[i])]

\* the line holds the text at some position, character for character
HoldsText(l, text) ==
    \E k \in 1..(Len(l) - Len(text) + 1) : SubSeq(l, k, k + Len(text) - 1) = text

\* C11: a pattern without a leading "^" is matched iff some non-empty trimmed
\* line of the filtered stdout or of the filtered stderr contains it as a
\* case-sensitive substring; the lines recorded for it are exactly those
\* trimmed lines, in order of appearance, the lines of stdout before those of
\* stderr.
C11_SubstringMatch ==
    Returned =>
        \A i \in DOMAIN patterns :
            SubstringPattern(patterns[i]) =>
                LET p == patterns[i]
                    holds(l) == l # <<>> /\ HoldsText(l, p.s)
                    lines ==
                        SelectSeq(TrimmedLines(_filter_job_setup_content(stdout)), holds)
                        \o SelectSeq(TrimmedLines(_filter_job_setup_content(stderr)), holds)
                IN  /\ match_result.match_details[p] = lines
                    /\ (p \in Range(match_result.matched_patterns)) <=> lines # <<>>
                    /\ (p \in Range(match_result.unmatched_patterns)) <=> lines = <<>>

\* "ERROR" against "error", "  ERROR" and, on stderr, "x ERROR": the second
\* and the third are recorded, trimmed, in this order
C11_Witness ==
    /\ Returned
    /\ JStr(Pattern.error) \in Range(patterns)
    /\ stdout = <<Line.lower, Line.error_indented>>
    /\ stderr = <<Line.error_mid>>
    /\ match_result.match_details[JStr(Pattern.error)] = <<Pattern.error, Line.error_mid>>

\* The echoed job-configuration block as it is described: a banner line opens
\* it, the long divider ends it, and inside it the lines that look like YAML
\* (indented or "-"-prefixed with a ":", or a comment) belong to it.
BannerLine(line) ==
    \/ Contains(line, JobFileMarker) /\ Contains(line, TestsMarker)
    \/ Contains(line, JobSetupTitle)

YamlLooking(line) ==
    \/ /\ StartsWith(Strip(line), <<"-">>) \/ StartsWith(line, <<" ">>)
       /\ Contains(Strip(line), <<":">>)
    \/ StartsWith(Strip(line), <<"#">>)

DividerLine(line) == StartsWith(Strip(line), Divider)

\* the lines of a text that belong to no configuration block, in order
RECURSIVE ProgramLines(_, _)
ProgramLines(lines, in_block) ==
    IF lines = <<>> THEN <<>>
    ELSE
        LET line == Head(lines)
            rest == Tail(lines)
        IN  IF Strip(line) = <<>> THEN <<line>> \o ProgramLines(rest, in_block)
            ELSE IF BannerLine(line) THEN ProgramLines(rest, TRUE)
            ELSE IF in_block /\ DividerLine(line) THEN <<line>> \o ProgramLines(rest, FALSE)
            ELSE IF in_block /\ YamlLooking(line) THEN ProgramLines(rest, TRUE)
            ELSE <<line>> \o ProgramLines(rest, in_block)

\* a is b with some lines left out
RECURSIVE IsSubsequence(_, _)
IsSubsequence(a, b) ==
    IF a = <<>> THEN TRUE
    ELSE IF b = <<>> THEN FALSE
    ELSE IF Head(a) = Head(b) THEN IsSubsequence(Tail(a), Tail(b))
    ELSE IsSubsequence(a, Tail(b))

\* the lines the filter keeps of stdout and of stderr
KeptLines(text) == FilterLoop(text, FALSE, <<>>)

\* C12: the filter removes every line of an echoed configuration block (the
\* banner and the YAML-looking and comment lines up to the divider): the lines
\* it keeps are lines outside the blocks.
C12_BlockRemoved ==
    match_pc = "returned" =>
        /\ IsSubsequence(KeptLines(stdout), ProgramLines(stdout, FALSE))
        /\ IsSubsequence(KeptLines(stderr), ProgramLines(stderr, FALSE))

\* C13: the filter keeps every line that belongs to no configuration block:
\* the lines before the first banner, blank and separator lines, and the lines
\* after the divider that ends a block.
C13_OthersKept ==
    match_pc = "returned" =>
        /\ IsSubsequence(ProgramLines(stdout, FALSE), KeptLines(stdout))
        /\ IsSubsequence(ProgramLines(stderr, FALSE), KeptLines(stderr))

\* a banner, then indented YAML-looking lines, then the divider, then the
\* program line "started ok"
EchoThenProgram(text) ==
    /\ Len(text) >= 4
    /\ BannerLine(text[1])
    /\ \A i \in 2..(Len(text) - 2) :
           StartsWith(text[i], <<" ">>) /\ Contains(text[i], <<":">>)
    /\ DividerLine(text[Len(text) - 1])
    /\ text[Len(text)] = Line.started_ok

\* C14: for such an output the program line is kept by the filter, and the
\* pattern "started" is matched, by the program line and not by the echoed
\* line "  name: started".
C14_ProgramLineMatched ==
    (Returned /\ EchoThenProgram(stdout)) =>
        /\ Line.started_ok \in Range(_filter_job_setup_content(stdout))
        /\ Line.yaml_indented \notin Range(_filter_job_setup_content(stdout))
        /\ \A i \in DOMAIN patterns :
               patterns[i] = JStr(Pattern.started) =>
                   /\ patterns[i] \in Range(match_result.matched_patterns)
                   /\ Head(match_result.match_details[patterns[i]]) = Line.started_ok
                   /\ Strip(Line.yaml_indented)
                          \notin Range(match_result.match_details[patterns[i]])

C14_Witness ==
    /\ Returned
    /\ stdout = <<Line.banner, Line.yaml_indented, Line.divider, Line.started_ok>>
    /\ patterns = <<JStr(Pattern.started)>>
    /\ match_result.matched_patterns = <<JStr(Pattern.started)>>
    /\ match_result.match_details[JStr(Pattern.started)] = <<Line.started_ok>>

\* the filtered text holds lines of the text only, in their order, and
\* filtering it again gives it back
DeletesOnly(text) ==
    LET filtered == _filter_job_setup_content(text)
    IN  /\ IsSubsequence(KeptLines(text), text)
        /\ filtered = (IF KeptLines(text) = <<>> THEN EmptyText ELSE KeptLines(text))
        /\ _filter_job_setup_content(filtered) = filtered

\* C29: the filter only deletes lines and is idempotent: the filtered lines
\* are a subsequence of the lines of the output, and the filter returns an
\* already filtered text unchanged.
C29_FilterDeletesOnly ==
    match_pc = "returned" => DeletesOnly(stdout) /\ DeletesOnly(stderr)

\* an output of which the filter deleted the echoed block and kept an
\* indented line and the program line
C29_Witness ==
    /\ match_pc = "returned"
    /\ stdout = <<Line.job_file, Line.yaml_indented, Line.yaml_key_error, Line.divider,
                  Line.started_ok>>
    /\ _filter_job_setup_content(stdout) = <<Line.divider, Line.started_ok>>
    /\ stderr = <<Line.error_mid>>

(***************************************************************************)
(* Properties of run_test and of the TestResult it returns                 *)
(***************************************************************************)

HasResult == run_pc = "RESULT"

\* C1: success = execution_success AND log_match_success, where
\* execution_success is (status = PASS) when expected_pass and (status = FAIL)
\* otherwise, and log_match_success is true without patterns and all_matched
\* otherwise; a TIMEOUT or ERROR result is never a success.
C1_Success ==
    HasResult =>
        LET r == run_result
            execution_success ==
                \/ r.expected_pass /\ r.status = "PASS"
                \/ ~r.expected_pass /\ r.status = "FAIL"
            log_match_success ==
                r.log_match_result.patterns # <<>> =>
                    r.log_match_result.unmatched_patterns = <<>>
        IN  /\ r.success = (execution_success /\ log_match_success)
            /\ r.status \in {"TIMEOUT", "ERROR"} => ~r.success

\* the exit code is the expected one and a pattern is unmatched: the log
\* matching alone makes the result a failure
C1_Witness ==
    /\ HasResult
    /\ run_result.status = "FAIL"
    /\ ~run_result.expected_pass
    /\ run_result.log_match_result.unmatched_patterns # <<>>
    /\ Len(run_result.log_match_result.matched_patterns) = 1
    /\ ~run_result.success

\* the lines recorded for pattern p are the searched lines of the result's
\* output that p matches, in their order
DetailOf(r, p) ==
    /\ p \in DOMAIN r.log_match_result.match_details
    /\ r.log_match_result.match_details[p] =
           SelectSeq(StrippedLog(r.stdout, r.stderr), LAMBDA l : LineMatches(p, l))

\* C9 as stated: on every path, the ERROR paths included, match_details maps
\* every configured pattern to its matching lines (none when unmatched).
C9_DetailsOnEveryPath ==
    HasResult =>
        \A p \in Range(run_result.log_match_result.patterns) : DetailOf(run_result, p)

\* C9 amended: on the PASS, FAIL and TIMEOUT paths match_details maps every
\* configured pattern to its matching lines in order of appearance, the empty
\* sequence when it is unmatched; on the ERROR paths match_details is the
\* empty mapping and every configured pattern is unmatched.
C9_DetailsOnMatchedPaths ==
    HasResult =>
        LET lmr == run_result.log_match_result
        IN  IF run_result.status = "ERROR"
            THEN /\ DOMAIN lmr.match_details = {}
                 /\ lmr.matched_patterns = <<>>
                 /\ lmr.unmatched_patterns = lmr.patterns
            ELSE \A p \in Range(lmr.patterns) :
                    /\ DetailOf(run_result, p)
                    /\ (p \in Range(lmr.unmatched_patterns))
                           <=> lmr.match_details[p] = <<>>

\* subprocess.run raised for a job with two patterns: both are unmatched and
\* match_details holds neither
C9_Witness ==
    /\ HasResult
    /\ proc.kind = "exception"
    /\ run_result.status = "ERROR"
    /\ Len(run_result.log_match_result.unmatched_patterns) = 2
    /\ run_result.log_match_result.match_details = EmptyDict

\* run_test has ended: it returned a result or an exception left it
Finished == run_pc \in {"RESULT", "RAISED"}

\* C15: when the environment script or the run script is missing, run_test
\* returns an ERROR result with runtime 0, a message naming the missing path
\* and every configured pattern unmatched; no subprocess was started and
\* success is false.
C15_MissingScript ==
    (Finished /\ (~env_script_exists \/ ~grun_script_exists)) =>
        /\ run_result.kind = "TestResult"
        /\ run_result.status = "ERROR"
        /\ run_result.runtime = 0
        /\ run_result.error_msg.arg =
               (IF ~env_script_exists THEN env_script ELSE grun_script)
        /\ run_result.log_match_result.patterns = config.log_patterns
        /\ run_result.log_match_result.matched_patterns = <<>>
        /\ run_result.log_match_result.unmatched_patterns = config.log_patterns
        /\ proc = NoProcess
        /\ ~run_result.success

\* C16: when the subprocess completes within the timeout, the result is PASS
\* for exit code 0 and FAIL otherwise, never TIMEOUT or ERROR, and its
\* log_match_result is the matching of the configured patterns against the
\* captured stdout and stderr.
C16_Completed ==
    (Finished /\ proc.kind = "completed") =>
        /\ run_result.kind = "TestResult"
        /\ run_result.status = (IF proc.returncode = 0 THEN "PASS" ELSE "FAIL")
        /\ run_result.stdout = proc.stdout
        /\ run_result.stderr = proc.stderr
        /\ run_result.log_match_result.patterns = config.log_patterns
        /\ \A p \in Range(config.log_patterns) : DetailOf(run_result, p)

\* C17: when the timeout expires, run_test returns a TIMEOUT result whose
\* message records the configured timeout; the partial output is kept and
\* matched against the configured patterns; success is false.
C17_TimedOut ==
    (Finished /\ proc.kind = "timeout") =>
        /\ run_result.kind = "TestResult"
        /\ run_result.status = "TIMEOUT"
        /\ run_result.error_msg.arg = SignedDecimal(config.timeout)
        /\ run_result.stdout = proc.stdout
        /\ run_result.stderr = proc.stderr
        /\ run_result.log_match_result.patterns = config.log_patterns
        /\ \A p \in Range(config.log_patterns) : DetailOf(run_result, p)
        /\ ~run_result.success

\* C18: when subprocess.run raises an exception other than the timeout,
\* run_test returns an ERROR result whose message is the text of the
\* exception; no matching is done: no pattern is matched and the unmatched
\* patterns are the configured ones.
C18_OtherException ==
    (Finished /\ proc.kind = "exception") =>
        /\ run_result.kind = "TestResult"
        /\ run_result.status = "ERROR"
        /\ run_result.error_msg = proc.error
        /\ run_result.log_match_result.patterns = config.log_patterns
        /\ run_result.log_match_result.matched_patterns = <<>>
        /\ run_result.log_match_result.unmatched_patterns = config.log_patterns
        /\ DOMAIN run_result.log_match_result.match_details = {}

C18_Witness ==
    /\ HasResult
    /\ proc.kind = "exception"
    /\ run_result.status = "ERROR"
    /\ run_result.error_msg \in ExceptionMessages
    /\ config.log_patterns = <<JStr(Pattern.started)>>
    /\ run_result.log_match_result.unmatched_patterns = <<JStr(Pattern.started)>>
    /\ run_result.log_match_result.matched_patterns = <<>>

\* the positions run_test may reach from position pc: the order START,
\* CONFIG_PARSED, ENV_CHECKED, one of EXECUTED / TIMED_OUT / ERRORED, RESULT,
\* where a missing script leads from CONFIG_PARSED to the ERROR RESULT
StateMachine(pc) ==
    CASE pc = "START"         -> {"CONFIG_PARSED"}
      [] pc = "CONFIG_PARSED" -> {"ENV_CHECKED", "RESULT"}
      [] pc = "ENV_CHECKED"   -> {"EXECUTED", "TIMED_OUT", "ERRORED"}
      [] pc \in {"EXECUTED", "TIMED_OUT", "ERRORED"} -> {"RESULT"}
      [] OTHER                -> {}

\* C25: every step of run_test follows the state machine; the subprocess is
\* started once, at ENV_CHECKED, with both scripts present; run_test ends at
\* RESULT only, with a TestResult that carries expected_pass and timeout of the
\* parsed configuration.
C25_StateMachine ==
    [][ /\ run_pc' \in StateMachine(run_pc)
        /\ proc' # proc =>
               /\ run_pc = "ENV_CHECKED"
               /\ proc = NoProcess
               /\ env_script_exists /\ grun_script_exists
        /\ run_pc' = "RESULT" =>
               /\ run_result'.kind = "TestResult"
               /\ run_result'.expected_pass = config'.pass_expected
               /\ run_result'.timeout_limit = config'.timeout
      ]_vars

(***************************************************************************)
(* Properties of run_all_tests                                             *)
(***************************************************************************)

\* the names of the .job files of the directory, in increasing order
JobsInOrder(files) ==
    /\ Range(files) = {f \in tests_dir : EndsWith(f, <<".", "j", "o", "b">>)}
    /\ \A i, j \in DOMAIN files : i < j => StrLess(files[i], files[j])

\* run_all_tests returned a list with one TestResult per job file, in the
\* order of the names, after one call of run_test per job file in that order
AllJobsRun ==
    /\ batch_pc = "DONE"
    /\ JobsInOrder(job_files)
    /\ invoked = job_files
    /\ Len(results) = Len(job_files)
    /\ \A i \in DOMAIN results :
           /\ results[i].kind = "TestResult"
           /\ results[i].job_file = job_files[i]

\* C19: run_all_tests runs the .job files in lexicographic order of their
\* names, calls run_test once per file and returns one TestResult per file in
\* that order; no job, whatever its status or its directive, keeps the
\* remaining jobs from running: every batch ends with all results.
C19_EveryJobRuns == <>AllJobsRun

(***************************************************************************)
(* Properties of setup_environment                                         *)
(***************************************************************************)

\* key k is in map new as it is in the process environment e
Inherited(k, e, new) ==
    /\ (k \in DOMAIN new) <=> (k \in DOMAIN e)
    /\ k \in DOMAIN e => new[k] = e[k]

\* map new is what setup_environment has to build from process environment e
BuiltFrom(e, new) ==
    /\ DOMAIN new \subseteq
           (DOMAIN e) \cup {"GEODELITY_DIR", "GRUN_DIR", "GDLOGGING_LEVEL", "KEEPJOBFILES"}
    /\ new["GEODELITY_DIR"] = test_env.geodelity_dir
    /\ new["GRUN_DIR"] = EnvText.grun_dir
    /\ IF test_env.debug THEN new["GDLOGGING_LEVEL"] = EnvText.debug
       ELSE Inherited("GDLOGGING_LEVEL", e, new)
    /\ IF test_env.keep_job_files THEN new["KEEPJOBFILES"] = EnvText.true
       ELSE Inherited("KEEPJOBFILES", e, new)
    /\ \A k \in (DOMAIN e) \ {"GEODELITY_DIR", "GRUN_DIR", "GDLOGGING_LEVEL",
                                "KEEPJOBFILES"} : Inherited(k, e, new)

\* C20: setup_environment returns a new map, built from the process
\* environment with GEODELITY_DIR and GRUN_DIR set, GDLOGGING_LEVEL = DEBUG only
\* with debug and KEEPJOBFILES = true only with keep_job_files, each inherited
\* or absent otherwise; building a map changes neither the process
\* environment nor an earlier map, and changing one job's map changes neither
\* the process environment nor the map of another job.
C20_FreshEnvironment ==
    [][ env_pc = "ready" =>
          /\ heap'[1] = heap[1]
          /\ Len(job_envs') > Len(job_envs) =>
                LET env == job_envs'[Len(job_envs')]
                IN  /\ env \notin DOMAIN heap
                    /\ BuiltFrom(heap[1], heap'[env])
                    /\ \A r \in DOMAIN heap : heap'[r] = heap[r]
          /\ Len(job_envs') = Len(job_envs) =>
                \E i \in DOMAIN job_envs :
                    \A j \in (DOMAIN job_envs) \ {i} :
                        heap'[job_envs[j]] = heap[job_envs[j]]
      ]_vars

\* with debug on and GDLOGGING_LEVEL inherited as INFO, the second job's map
\* holds DEBUG after the holder of the first job's map changed that key
C20_Witness ==
    /\ env_pc = "ready"
    /\ Len(job_envs) = 2
    /\ test_env.debug
    /\ "GDLOGGING_LEVEL" \in DOMAIN heap[1]
    /\ heap[1]["GDLOGGING_LEVEL"] = EnvText.info
    /\ heap[job_envs[1]]["GDLOGGING_LEVEL"] = EnvText.changed
    /\ heap[job_envs[2]]["GDLOGGING_LEVEL"] = EnvText.debug
    /\ "KEEPJOBFILES" \notin DOMAIN heap[job_envs[2]]

(***************************************************************************)
(* Properties of parse_yaml_modules                                        *)
(***************************************************************************)

\* the entries "module_name: {...}" of a list of mappings, in order
RECURSIVE Entries(_)
Entries(items) ==
    IF items = <<>> THEN <<>>
    ELSE [i \in 1..Len(Head(items).keys) |->
              [name |-> Head(items).keys[i], config |-> Head(items).items[i]]]
         \o Entries(Tail(items))

\* a document as the format describes it: a list of mappings from a module
\* name to a mapping of its settings
ModuleList(f) ==
    /\ f.open = "ok" /\ f.load.kind = "data" /\ f.load.data.t = "list"
    /\ \A i \in 1..Len(f.load.data.items) :
          /\ f.load.data.items[i].t = "dict"
          /\ \A j \in 1..Len(f.load.data.items[i].items) :
                f.load.data.items[i].items[j].t = "dict"

\* version, else ver, else "unknown"
VersionOf(c) ==
    IF TextVersion \in Range(c.keys) THEN PyStr(c.items[IndexOf(c.keys, TextVersion)])
    ELSE IF TextVer \in Range(c.keys) THEN PyStr(c.items[IndexOf(c.keys, TextVer)])
    ELSE TextUnknown

OneModulePerEntry(f, list) ==
    LET entries == Entries(f.load.data.items)
    IN  list = [i \in 1..Len(entries) |->
                   ModuleInfo(entries[i].name, VersionOf(entries[i].config))]

\* a failure to open, read, decode or parse the job file
LoadFailed(f) == f.open # "ok" \/ f.load.kind = "raised"

\* C21: parse_yaml_modules returns one ModuleInfo per entry of the document, in
\* order, with the key as name and version, else ver, else "unknown" as
\* version; every failure to read or parse the file gives the empty list, and
\* no exception leaves the function.
C21_ModulesExtracted ==
    yaml_pc # "call" =>
        /\ yaml_result.kind = "modules"
        /\ LoadFailed(yaml_file) => yaml_result.list = <<>>
        /\ ModuleList(yaml_file) => OneModulePerEntry(yaml_file, yaml_result.list)

(***************************************************************************)
(* Properties of the test manager                                          *)
(***************************************************************************)

CompleteTree == [exists |-> TRUE, modules |-> TreeModules({})]

Terminated == tester_pc \in {"done", "exited"}

\* copy_module_tests has run
Copied == copy_results # None /\ copy_results.kind = "results"

\* the .job files a specification "module" or "module/pattern" stands for
Selection(t, spec) ==
    LET has == "/" \in Range(spec)
        module_name == IF has THEN SplitOnce(<<>>, spec)[1] ELSE spec
        pattern == IF has THEN SplitOnce(<<>>, spec)[2] ELSE <<"*">>
    IN  {generate_target_filename(module_name, f) :
            f \in {x \in UNION {m.files : m \in {y \in t.modules : y.name = module_name}} :
                       EndsWith(x, DotJob) /\ fnmatch(x, pattern)}}

\* C22: with --clean and without --dry-run the manager cleans, then copies,
\* then runs the tests: a run that ends, with a valid GEODELITY_DIR and
\* specifications that select a file, has removed or made the directories,
\* after that copied, and after that run a test.
C22_CleanCopyRun ==
    (/\ Terminated /\ args.clean /\ ~args.dry_run /\ args.geo_valid
     /\ tree = CompleteTree
     /\ \E i \in DOMAIN module_specs : Selection(tree, module_specs[i]) # {})
        => \E i, j, k \in DOMAIN steps :
              /\ i < j /\ j < k
              /\ steps[i].op = "mkdir" /\ steps[j].op = "copy" /\ steps[k].op = "run"

\* C23: a specification module/pattern selects exactly the .job files of the
\* module's test directory whose names match the pattern, and a bare module
\* name selects all of them: after the copy of one specification the tests
\* directory holds exactly the targets of that selection.
C23_PatternSelects ==
    (Copied /\ ~args.dry_run /\ tree = CompleteTree /\ Len(module_specs) = 1)
        => Names(tests.files) = Selection(tree, module_specs[1])

\* C24: under --dry-run no step removes or makes a directory, copies a file
\* or runs a test, whatever the other options are: the tests and grun
\* directories stay as they were.
C24_DryRunModifiesNothing ==
    [][args.dry_run => tests' = tests /\ grun' = grun /\ steps' = <<>>]_vars

C24_Witness ==
    /\ tester_pc = "done" /\ args.dry_run /\ ~args.clean
    /\ Copied /\ copy_results.copied_files = 3
    /\ tests = Dir(TRUE, {File(JobName.old, JobName.old)})
    /\ grun = Dir(TRUE, {File(JobName.out, JobName.out)})

\* C27: without --clean and without --dry-run no step removes anything: the
\* directories and the files of the tests and grun directories are still
\* there after every step.
C27_NothingRemoved ==
    [][(~args.clean /\ ~args.dry_run) =>
          /\ tests.exists => tests'.exists
          /\ Names(tests.files) \subseteq Names(tests'.files)
          /\ grun.exists => grun'.exists
          /\ grun.files \subseteq grun'.files
          /\ \A i \in DOMAIN steps' : steps'[i].op # "rmtree"]_vars

\* C30: in one run of copy_module_tests no two different source files are
\* copied to the same target, and copied_files is the number of files of the
\* tests directory, which was empty when the copying began.
C30_NoTargetCollision ==
    (Copied /\ ~args.dry_run) =>
        /\ \A i, j \in DOMAIN steps :
              (steps[i].op = "copy" /\ steps[j].op = "copy"
                 /\ steps[i].path = steps[j].path) => steps[i].src = steps[j].src
        /\ copy_results.copied_files = Cardinality(tests.files)

(***************************************************************************)
(* Properties of build_modules                                             *)
(***************************************************************************)

\* the commands run for a module
CommandsOf(n, program) == {i \in DOMAIN commands :
                              commands[i].module = n /\ commands[i].program = program}

\* ninja install directly follows the successful build script of its module
InstallAfterBuild ==
    \A i \in DOMAIN commands :
        commands[i].program = "ninja" =>
            /\ i > 1
            /\ commands[i - 1].program = "bash"
            /\ commands[i - 1].module = commands[i].module
            /\ commands[i - 1].ok

\* a result is true exactly when script, build and install succeeded
ResultIffAllSucceeded ==
    \A n \in DOMAIN build_results :
        build_results[n] <=>
            /\ module_dirs[n].script
            /\ \E i \in CommandsOf(n, "bash") : commands[i].ok
            /\ \E i \in CommandsOf(n, "ninja") : commands[i].ok

\* the modules are gone through in sorted order of their names
InNameOrder ==
    \A i, j \in DOMAIN commands :
        i < j => ~StrLess(commands[j].module, commands[i].module)

\* the loop goes on to the end of the list whatever happens to one module
EveryModuleProcessed ==
    /\ build_pc # "raised"
    /\ build_pc = "done" => DOMAIN build_results = DOMAIN module_dirs

\* C26: in build_modules, ninja install is run for a module only after that
\* module's build script ran and returned success; a module's result is true
\* exactly when its script was found and build and install succeeded; the
\* failure of one module does not stop the others; the modules are processed
\* in sorted name order.
C26_BuildThenInstall ==
    InstallAfterBuild /\ ResultIffAllSucceeded /\ InNameOrder /\ EveryModuleProcessed

\* a module whose version cannot be determined: the JSON file is missing,
\* unreadable, unparsable, or has no non-empty version field
Undetermined(m) ==
    \/ ~m.json.exists
    \/ ~m.json.readable
    \/ m.json.content \in {JsonText.garbage, JsonText.no_version, JsonText.empty_version}

\* C28: build_modules never runs a build script for a module whose version
\* could not be determined; every such module is skipped and recorded as a
\* failed build.
C28_NoBuildWithoutVersion ==
    /\ \A i \in DOMAIN commands : ~Undetermined(module_dirs[commands[i].module])
    /\ \A n \in DOMAIN build_results :
          Undetermined(module_dirs[n]) => ~build_results[n]

====
